---- MODULE Spec2Model ----
(***************************************************************************)
(* Model of the deep-copy library of src/deepcopy.go: reflect values over  *)
(* an explicit heap, the type classifier (analyzeTypeRecursive) with its   *)
(* caches, the override detector (hasDeepCopyMethod / callDeepCopy), the   *)
(* traversal engine (copyRecursive / copyRecursiveWithCache) and the entry *)
(* points Copy, CopyWithKey, CopyValue, AnalyzeValue.                      *)
(***************************************************************************)
EXTENDS Integers, Sequences, FiniteSets, TLC

VARIABLES heap, src, srcSize, analysisCache, typedManagers, businessCopyCache, last, wrote,
          thr, tms, hist

vars == <<heap, src, srcSize, analysisCache, typedManagers, businessCopyCache, last, wrote,
          thr, tms, hist>>

(***************************************************************************)
(* Bounds of the model.                                                    *)
(***************************************************************************)
MaxNodes == 3

MaxLen == 2

(***************************************************************************)
(* Type descriptors (reflect.Type).  A type is named by the string         *)
(* reflect.Type.String() gives it; TypeTable holds its shape.              *)
(***************************************************************************)
TScalar(k) == [kind |-> k]

TPtr(e) == [kind |-> "ptr", elem |-> e]

TSlice(e) == [kind |-> "slice", elem |-> e]

TMap(k, e) == [kind |-> "map", key |-> k, elem |-> e]

TArray(n, e) == [kind |-> "array", len |-> n, elem |-> e]

TIface == [kind |-> "interface"]

TChan(e) == [kind |-> "chan", elem |-> e]

\* recv: which receiver declares DeepCopy ("none", "value" or "pointer")
TStruct(fs, r) == [kind |-> "struct", fields |-> fs, recv |-> r]

Fld(n, e, t) == [name |-> n, exp |-> e, type |-> t]

TFunc == [kind |-> "func"]

\* the kinds of the first case of analyzeTypeRecursive
ScalarKinds == {"int", "string", "bool", "float64"}

TypeTable ==
  [ int |-> TScalar("int"),
    string |-> TScalar("string"),
    bool |-> TScalar("bool"),
    float64 |-> TScalar("float64") ] @@
  ( "ComplexStruct" :> TStruct(<<Fld("Int", TRUE, "int"),
                                 Fld("String", TRUE, "string"),
                                 Fld("Bool", TRUE, "bool"),
                                 Fld("Float", TRUE, "float64"),
                                 Fld("Slice", TRUE, "[]int"),
                                 Fld("Map", TRUE, "map[string]int"),
                                 Fld("Array", TRUE, "[3]int"),
                                 Fld("IntPtr", TRUE, "*int"),
                                 Fld("StringPtr", TRUE, "*string"),
                                 Fld("Nested", TRUE, "*ComplexStruct"),
                                 Fld("Interface", TRUE, "interface {}"),
                                 Fld("private", FALSE, "string")>>, "none") ) @@
  ( "*ComplexStruct" :> TPtr("ComplexStruct") ) @@
  ( "map[string]int" :> TMap("string", "int") ) @@
  ( "[3]int" :> TArray(3, "int") ) @@
  ( "*int" :> TPtr("int") ) @@
  ( "NestedValueStruct" :> TStruct(<<Fld("Basic", TRUE, "OnlyValueStruct"),
                                     Fld("Count", TRUE, "int")>>, "none") ) @@
  ( "[2]NestedValueStruct" :> TArray(2, "NestedValueStruct") ) @@
  ( "Node" :> TStruct(<<Fld("Next", TRUE, "*Node"),
                        Fld("Value", TRUE, "int")>>, "none") ) @@
  ( "*Node" :> TPtr("Node") ) @@
  ( "Odd" :> TStruct(<<Fld("Next", TRUE, "*Even")>>, "none") ) @@
  ( "Even" :> TStruct(<<Fld("Next", TRUE, "*Odd"),
                        Fld("Done", TRUE, "chan int")>>, "none") ) @@
  ( "*Odd" :> TPtr("Odd") ) @@
  ( "*Even" :> TPtr("Even") ) @@
  ( "func()" :> TFunc ) @@
  ( "WithFunc" :> TStruct(<<Fld("F", TRUE, "func()")>>, "none") ) @@
  ( "unsafe.Pointer" :> [kind |-> "unsafe"] ) @@
  ( "CircularStruct" :> TStruct(<<Fld("Name", TRUE, "string"),
                                  Fld("Next", TRUE, "*CircularStruct"),
                                  Fld("Prev", TRUE, "*CircularStruct")>>, "none") ) @@
  ( "*CircularStruct" :> TPtr("CircularStruct") ) @@
  ( "[]*CircularStruct" :> TSlice("*CircularStruct") ) @@
  ( "map[int]*CircularStruct" :> TMap("int", "*CircularStruct") ) @@
  ( "[2]*CircularStruct" :> TArray(2, "*CircularStruct") ) @@
  ( "interface {}" :> TIface ) @@
  ( "[]interface {}" :> TSlice("interface {}") ) @@
  ( "[]int" :> TSlice("int") ) @@
  ( "*string" :> TPtr("string") ) @@
  ( "map[string]interface {}" :> TMap("string", "interface {}") ) @@
  ( "chan int" :> TChan("int") ) @@
  ( "map[string]string" :> TMap("string", "string") ) @@
  ( "Key" :> TStruct(<<Fld("ID", TRUE, "int"),
                       Fld("tag", FALSE, "string")>>, "none") ) @@
  ( "map[Key]int" :> TMap("Key", "int") ) @@
  ( "map[*CircularStruct]int" :> TMap("*CircularStruct", "int") ) @@
  ( "Unexported" :> TStruct(<<Fld("A", TRUE, "string"),
                              Fld("B", TRUE, "int"),
                              Fld("aa", FALSE, "string"),
                              Fld("bb", FALSE, "int"),
                              Fld("cc", FALSE, "[]int"),
                              Fld("dd", FALSE, "map[string]string")>>, "none") ) @@
  ( "*Unexported" :> TPtr("Unexported") ) @@
  ( "OnlyValueStruct" :> TStruct(<<Fld("Name", TRUE, "string"),
                                   Fld("Age", TRUE, "int")>>, "none") ) @@
  ( "CustomCopier" :> TStruct(<<Fld("Value", TRUE, "int")>>, "value") ) @@
  ( "*CustomCopier" :> TPtr("CustomCopier") ) @@
  ( "[]*CustomCopier" :> TSlice("*CustomCopier") ) @@
  ( "I" :> TStruct(<<Fld("A", TRUE, "string")>>, "pointer") ) @@
  ( "*I" :> TPtr("I") ) @@
  ( "NestI" :> TStruct(<<Fld("I", TRUE, "*I")>>, "none") ) @@
  ( "*NestI" :> TPtr("NestI") ) @@
  ( "WithCustom" :> TStruct(<<Fld("Count", TRUE, "int"),
                              Fld("Custom", TRUE, "CustomCopier")>>, "none") ) @@
  ( "WithChan" :> TStruct(<<Fld("Ch", TRUE, "chan int"),
                            Fld("Data", TRUE, "[]int")>>, "none") ) @@
  ( "time.Time" :> TStruct(<<Fld("wall", FALSE, "int"),
                             Fld("ext", FALSE, "int")>>, "none") )

TypeNames == DOMAIN TypeTable

KindOf(t) == TypeTable[t].kind

\* reflect.PointerTo / the type reflect.New(t) gives
PtrTo(t) == "*" \o t

(***************************************************************************)
(* Values (reflect.Value).  Every value carries its kind k and its type t. *)
(* a is an address of the heap (0 = nil), h a channel handle.              *)
(***************************************************************************)
Invalid == [k |-> "invalid"]

IntV(n) == [k |-> "int", t |-> "int", n |-> n]

StrV(s) == [k |-> "string", t |-> "string", s |-> s]

PtrV(t, a) == [k |-> "ptr", t |-> t, a |-> a]

SliceV(t, a, l, c) == [k |-> "slice", t |-> t, a |-> a, len |-> l, cap |-> c]

MapV(t, a) == [k |-> "map", t |-> t, a |-> a]

\* d is <<>> for a nil interface, <<v>> for one holding the concrete value v
IfaceV(t, d) == [k |-> "interface", t |-> t, d |-> d]

StructV(t, f) == [k |-> "struct", t |-> t, f |-> f]

ArrayV(t, e) == [k |-> "array", t |-> t, e |-> e]

ChanV(t, h) == [k |-> "chan", t |-> t, h |-> h]

(***************************************************************************)
(* Heap objects: the target of a pointer, the backing store of a slice,    *)
(* the table of a map (its entries in the order MapKeys yields them).      *)
(***************************************************************************)
Cell(v) == [ok |-> "cell", v |-> v]

Store(e) == [ok |-> "store", e |-> e]

Table(m) == [ok |-> "table", m |-> m]

Entry(key, val) == [key |-> key, val |-> val]

RECURSIVE Zero(_)
\* reflect.Zero(t): the zero value of type t
Zero(t) ==
  LET d == TypeTable[t] IN
  CASE d.kind = "int" -> IntV(0)
    [] d.kind = "string" -> StrV("")
    [] d.kind = "bool" -> [k |-> "bool", t |-> t, b |-> FALSE]
    [] d.kind = "float64" -> [k |-> "float64", t |-> t, n |-> 0]
    [] d.kind \in {"func", "unsafe"} -> [k |-> d.kind, t |-> t, h |-> 0]
    [] d.kind = "ptr" -> PtrV(t, 0)
    [] d.kind = "slice" -> SliceV(t, 0, 0, 0)
    [] d.kind = "map" -> MapV(t, 0)
    [] d.kind = "interface" -> IfaceV(t, <<>>)
    [] d.kind = "chan" -> ChanV(t, 0)
    [] d.kind = "array" -> ArrayV(t, [i \in 1..d.len |-> Zero(d.elem)])
    [] d.kind = "struct" ->
         StructV(t, [i \in 1..Len(d.fields) |-> Zero(d.fields[i].type)])

\* Value.IsNil for pointer, slice, map and interface values
IsNil(v) ==
  CASE v.k \in {"ptr", "slice", "map"} -> v.a = 0
    [] v.k = "interface" -> v.d = <<>>
    [] OTHER -> FALSE

\* reflect.ValueOf(src): an interface argument is unwrapped to its dynamic value
ValueOf(s) ==
  IF s.k = "interface" THEN (IF s.d = <<>> THEN Invalid ELSE s.d[1]) ELSE s

\* reflect.TypeOf(zero) for the static type T: nil for an interface type
StaticRType(T) == IF KindOf(T) = "interface" THEN "nil" ELSE T

EmptyMap == [x \in {} |-> x]

\* F applied to the value of x, x being evaluated once
Bind(x, F(_)) == CHOOSE y \in {F(v) : v \in {x}} : TRUE

(***************************************************************************)
(* Override detector.                                                      *)
(***************************************************************************)
\* v.Type().MethodByName("DeepCopy"): the method set of a struct type holds
\* its value-receiver methods, that of a pointer type the methods of both
\* receivers; every DeepCopy of the model has no argument and one result.
MethodByNameDeepCopy(t) ==
  LET d == TypeTable[t] IN
  CASE d.kind = "struct" -> d.recv = "value"
    [] d.kind = "ptr" -> /\ KindOf(d.elem) = "struct"
                         /\ TypeTable[d.elem].recv \in {"value", "pointer"}
    [] OTHER -> FALSE

hasDeepCopyMethod(v) == v.k # "invalid" /\ MethodByNameDeepCopy(v.t)

\* The DeepCopy methods the repository declares, applied to the receiver s:
\* CustomCopier doubles Value, I appends "_copy" to A.
DeepCopyBody(s) ==
  CASE s.t = "CustomCopier" -> StructV("CustomCopier", <<IntV(s.f[1].n * 2)>>)
    [] s.t = "I" -> StructV("I", <<StrV(s.f[1].s \o "_copy")>>)

\* method.Func.Call([v]): a pointer receiver is dereferenced by the method
\* (or by the wrapper of a value-receiver method), which fails on nil.
callDeepCopy(v, h) ==
  IF v.k = "ptr"
  THEN IF v.a = 0 THEN [panic |-> TRUE, v |-> Invalid]
       ELSE [panic |-> FALSE, v |-> DeepCopyBody(h[v.a].v)]
  ELSE [panic |-> FALSE, v |-> DeepCopyBody(v)]

(***************************************************************************)
(* Type classifier.  An analysis pass is the map "visited" from the types  *)
(* met so far to their TypeAnalysisResult objects; FieldAnalysis refers to *)
(* the objects of the pass by type.                                        *)
(***************************************************************************)
\* A new TypeAnalysisResult.  open, expansions and overflow are not fields of
\* the object: they record that the analysis of the type is in progress, how
\* often the structure of the type was expanded in the pass, and that the
\* type was entered again while in progress without being found in visited,
\* which is a recursion without end.
NewResult(t) ==
  [TypeName |-> t, IsOnlyValues |-> FALSE, ContainsPtr |-> FALSE,
   ContainsSlice |-> FALSE, ContainsMap |-> FALSE, ContainsChan |-> FALSE,
   ContainsFunc |-> FALSE, ContainsIface |-> FALSE, FieldAnalysis |-> <<>>,
   open |-> TRUE, expansions |-> 1, overflow |-> FALSE]

\* the test of field.PkgPath left out: no field counts as unexported
hasUnexportedFieldsNever(t) == FALSE

hasUnexportedFields(t) ==
  \E i \in 1..Len(TypeTable[t].fields) : ~TypeTable[t].fields[i].exp

RECURSIVE analyzeTypeRecursive(_, _)
RECURSIVE analyzeWithoutLookup(_, _)
RECURSIVE analyzeFields(_, _, _)

\* the switch on t.Kind(): v0 is visited with the new result of t in it
expandType(t, v0) ==
    LET d == TypeTable[t]
    IN
    CASE d.kind \in ScalarKinds ->
           [v0 EXCEPT ![t].IsOnlyValues = TRUE]
      [] d.kind = "array" ->
           Bind(analyzeTypeRecursive(d.elem, v0), LAMBDA v1 :
             [v1 EXCEPT ![t].IsOnlyValues = v1[d.elem].IsOnlyValues,
                        ![t].ContainsPtr = v1[d.elem].ContainsPtr,
                        ![t].ContainsSlice = v1[d.elem].ContainsSlice,
                        ![t].ContainsMap = v1[d.elem].ContainsMap,
                        ![t].ContainsChan = v1[d.elem].ContainsChan,
                        ![t].ContainsFunc = v1[d.elem].ContainsFunc,
                        ![t].ContainsIface = v1[d.elem].ContainsIface])
      [] d.kind = "struct" ->
           analyzeFields(t, 1,
             [v0 EXCEPT ![t].IsOnlyValues = ~hasUnexportedFields(t)])
      [] d.kind = "ptr" ->
           Bind(analyzeTypeRecursive(d.elem, [v0 EXCEPT ![t].ContainsPtr = TRUE]),
             LAMBDA v1 :
             [v1 EXCEPT ![t].ContainsSlice = v1[d.elem].ContainsSlice,
                        ![t].ContainsMap = v1[d.elem].ContainsMap,
                        ![t].ContainsChan = v1[d.elem].ContainsChan,
                        ![t].ContainsFunc = v1[d.elem].ContainsFunc,
                        ![t].ContainsIface = v1[d.elem].ContainsIface])
      [] d.kind = "slice" ->
           Bind(analyzeTypeRecursive(d.elem, [v0 EXCEPT ![t].ContainsSlice = TRUE]),
             LAMBDA v1 :
             [v1 EXCEPT ![t].ContainsPtr = v1[d.elem].ContainsPtr,
                        ![t].ContainsMap = v1[d.elem].ContainsMap,
                        ![t].ContainsChan = v1[d.elem].ContainsChan,
                        ![t].ContainsFunc = v1[d.elem].ContainsFunc,
                        ![t].ContainsIface = v1[d.elem].ContainsIface])
      [] d.kind = "map" ->
           Bind(analyzeTypeRecursive(d.key, [v0 EXCEPT ![t].ContainsMap = TRUE]),
             LAMBDA v1 :
             Bind(analyzeTypeRecursive(d.elem, v1), LAMBDA v2 :
               LET kr == v2[d.key]
                   vr == v2[d.elem]
               IN [v2 EXCEPT ![t].ContainsPtr = kr.ContainsPtr \/ vr.ContainsPtr,
                             ![t].ContainsSlice = kr.ContainsSlice \/ vr.ContainsSlice,
                             ![t].ContainsChan = kr.ContainsChan \/ vr.ContainsChan,
                             ![t].ContainsFunc = kr.ContainsFunc \/ vr.ContainsFunc,
                             ![t].ContainsIface = kr.ContainsIface \/ vr.ContainsIface]))
      [] d.kind = "chan" -> [v0 EXCEPT ![t].ContainsChan = TRUE]
      [] d.kind = "func" -> [v0 EXCEPT ![t].ContainsFunc = TRUE]
      [] d.kind = "interface" -> [v0 EXCEPT ![t].ContainsIface = TRUE]
      [] OTHER -> v0

\* analyzeTypeRecursive without the lookup in visited: a type met again is
\* expanded again
analyzeWithoutLookup(t, visited) ==
  IF t \in DOMAIN visited /\ visited[t].open
  THEN [visited EXCEPT ![t].overflow = TRUE]
  ELSE
    Bind(expandType(t, [u \in DOMAIN visited \cup {t} |->
                         IF u # t THEN visited[u]
                         ELSE [NewResult(t) EXCEPT !.expansions =
                                 IF t \in DOMAIN visited
                                 THEN visited[t].expansions + 1 ELSE 1]]),
      LAMBDA v : [v EXCEPT ![t].open = FALSE])

analyzeTypeRecursive(t, visited) ==
  IF t \in DOMAIN visited THEN visited
  ELSE
    Bind(expandType(t, (t :> NewResult(t)) @@ visited),
      LAMBDA v : [v EXCEPT ![t].open = FALSE])

\* the loop over the fields of struct type t, from field i on
analyzeFields(t, i, visited) ==
  LET fs == TypeTable[t].fields IN
  IF i > Len(fs) THEN visited
  ELSE IF ~fs[i].exp THEN analyzeFields(t, i + 1, visited)
  ELSE
    Bind(analyzeTypeRecursive(fs[i].type, visited), LAMBDA v1 :
      LET fr == v1[fs[i].type]
          r == v1[t]
      IN analyzeFields(t, i + 1,
           [v1 EXCEPT ![t] =
              [r EXCEPT !.FieldAnalysis = Append(@, [name |-> fs[i].name, ref |-> fs[i].type]),
                        !.IsOnlyValues = @ /\ fr.IsOnlyValues,
                        !.ContainsPtr = @ \/ fr.ContainsPtr,
                        !.ContainsSlice = @ \/ fr.ContainsSlice,
                        !.ContainsMap = @ \/ fr.ContainsMap,
                        !.ContainsChan = @ \/ fr.ContainsChan,
                        !.ContainsFunc = @ \/ fr.ContainsFunc,
                        !.ContainsIface = @ \/ fr.ContainsIface]]))

\* A *TypeAnalysisResult: the object of type root in the pass that made it
Analysis(root, pass) == [root |-> root, pass |-> pass]

IsOnlyValues(an) == an.pass[an.root].IsOnlyValues

\* the synthetic result for the nil type
NilAnalysis ==
  Analysis("nil", "nil" :> [NewResult("nil") EXCEPT !.IsOnlyValues = TRUE, !.open = FALSE])

\* DeepCopyManager.getOrAnalyzeType on the cache c of one manager:
\* the result and the cache afterwards
getOrAnalyzeType(c, t) ==
  IF t \in DOMAIN c THEN [an |-> c[t], cache |-> c]
  ELSE Bind(Analysis(t, analyzeTypeRecursive(t, EmptyMap)), LAMBDA result :
         [an |-> result, cache |-> (t :> result) @@ c])

(***************************************************************************)
(* Graph traversal engine.  The traversal state st holds the heap, the     *)
(* visitation table (source address -> the destination recorded for it)    *)
(* the slice and map calls in progress, and whether the call was ended by  *)
(* a runtime panic or by a stack overflow.  copyRecursive(original, st)    *)
(* yields the value written to the destination slot cpy and the state      *)
(* afterwards.  A destination slot recorded in the table is written once,  *)
(* before it is recorded, and never again during the call, so the table    *)
(* holds the pointer value the slot had when it was recorded.              *)
(***************************************************************************)
Ret(v, st) == [v |-> v, st |-> st]

Panicked(st) == Ret(Invalid, [st EXCEPT !.panic = TRUE])

\* The call stack of the traversal.  The slice and map cases follow an
\* address without consulting the visitation table, so they are the only
\* calls that can be entered again for the value they are working on.  A
\* frame is such a call in progress: its argument and the addresses the
\* table held when it was entered.  The traversal reads the source only and
\* the table only grows, so a call entered again with the frame of a call in
\* progress repeats it, and so on without end: the goroutine stack grows
\* until the runtime stops the program (fatal error: stack overflow).
Frame(original, st) == <<original, DOMAIN st.visited>>

Overflowed(st) == Ret(Invalid, [st EXCEPT !.panic = TRUE, !.overflow = TRUE])

\* original.Elem() for a non-nil pointer: the variable at the address the
\* pointer holds.  The first field of a struct has the address of the struct,
\* so a pointer of the field's type to that address refers to the field.
Elem(original, h) ==
  LET v == h[original.a].v IN
  IF PtrTo(v.t) # original.t /\ v.k = "struct" /\ Len(v.f) > 0
     /\ PtrTo(v.f[1].t) = original.t
  THEN v.f[1] ELSE v

\* Value.SetMapIndex(key, val) on the entries of a map
SetMapIndex(m, key, val) ==
  IF \E j \in 1..Len(m) : m[j].key = key
  THEN [j \in 1..Len(m) |-> IF m[j].key = key THEN Entry(key, val) ELSE m[j]]
  ELSE Append(m, Entry(key, val))

RECURSIVE copyRecursive(_, _)
RECURSIVE copyFields(_, _, _, _)
RECURSIVE copyElems(_, _, _, _)
RECURSIVE copyEntries(_, _, _, _)

\* The accesses to the visitation table are recorded in st.log, in the order
\* they are made: <<"enter", a, d>> when visited[a] is assigned the
\* destination d, <<"hit", a, d>> when the lookup of a finds d, and
\* <<"traverse", a, d>> when the referent of a is about to be traversed.
Logged(st, event) == [st EXCEPT !.log = Append(@, event)]

\* visited[ptr] = cpy
Entered(st, a, v) ==
  [Logged(st, <<"enter", a, v.a>>) EXCEPT !.visited =
     [x \in DOMAIN @ \cup {a} |-> IF x = a THEN v ELSE @[x]]]

\* the pointer case with a lookup that does not use the entry it finds: the
\* pointer gets a destination of its own
copyPtrForget(original, st) ==
  IF original.a = 0 THEN Ret(Zero(original.t), st)
  ELSE IF original.a \in DOMAIN st.visited THEN
    LET h1 == Append(st.heap, Cell(Zero(TypeTable[original.t].elem)))
        newPtr == PtrV(original.t, Len(h1))
    IN Ret(newPtr, Logged([st EXCEPT !.heap = h1], <<"hit", original.a, newPtr.a>>))
  ELSE IF hasDeepCopyMethod(original) THEN
    LET r == callDeepCopy(original, st.heap) IN
    IF r.panic THEN Panicked(st)
    ELSE IF r.v.t # original.t THEN
      LET h1 == Append(st.heap, Cell(r.v))
          newPtr == PtrV(PtrTo(r.v.t), Len(h1))
      IN IF newPtr.t # original.t THEN Panicked([st EXCEPT !.heap = h1])
         ELSE Ret(newPtr, Entered([st EXCEPT !.heap = h1], original.a, newPtr))
    ELSE Ret(r.v, Entered(st, original.a, r.v))
  ELSE
    LET originalValue == Elem(original, st.heap) IN
    IF hasDeepCopyMethod(originalValue) THEN
      LET r == callDeepCopy(originalValue, st.heap)
          h1 == Append(st.heap, Cell(r.v))
          newPtr == PtrV(PtrTo(r.v.t), Len(h1))
      IN IF r.panic THEN Panicked(st)
         ELSE IF newPtr.t # original.t THEN Panicked([st EXCEPT !.heap = h1])
         ELSE Ret(newPtr, Entered([st EXCEPT !.heap = h1], original.a, newPtr))
    ELSE
      LET h1 == Append(st.heap, Cell(Zero(originalValue.t)))
          newPtr == PtrV(PtrTo(originalValue.t), Len(h1))
      IN IF newPtr.t # original.t THEN Panicked([st EXCEPT !.heap = h1])
         ELSE Bind(copyRecursive(originalValue,
                     Logged(Entered([st EXCEPT !.heap = h1], original.a, newPtr),
                            <<"traverse", original.a, newPtr.a>>)),
                LAMBDA r :
                  IF r.st.panic THEN r
                  ELSE Ret(newPtr, [r.st EXCEPT !.heap[newPtr.a] = Cell(r.v)]))

\* the pointer case with the two override checks made before the lookup in
\* visited
copyPtrOverrideFirst(original, st) ==
  IF original.a = 0 THEN Ret(Zero(original.t), st)
  ELSE IF hasDeepCopyMethod(original) THEN
    LET r == callDeepCopy(original, st.heap) IN
    IF r.panic THEN Panicked(st)
    ELSE IF r.v.t # original.t THEN
      LET h1 == Append(st.heap, Cell(r.v))
          newPtr == PtrV(PtrTo(r.v.t), Len(h1))
      IN IF newPtr.t # original.t THEN Panicked([st EXCEPT !.heap = h1])
         ELSE Ret(newPtr, Entered([st EXCEPT !.heap = h1], original.a, newPtr))
    ELSE Ret(r.v, Entered(st, original.a, r.v))
  ELSE
    LET originalValue == Elem(original, st.heap) IN
    IF hasDeepCopyMethod(originalValue) THEN
      LET r == callDeepCopy(originalValue, st.heap)
          h1 == Append(st.heap, Cell(r.v))
          newPtr == PtrV(PtrTo(r.v.t), Len(h1))
      IN IF r.panic THEN Panicked(st)
         ELSE IF newPtr.t # original.t THEN Panicked([st EXCEPT !.heap = h1])
         ELSE Ret(newPtr, Entered([st EXCEPT !.heap = h1], original.a, newPtr))
    ELSE IF original.a \in DOMAIN st.visited THEN
      LET v == st.visited[original.a]
          st1 == Logged(st, <<"hit", original.a, v.a>>)
      IN IF v.t = original.t THEN Ret(v, st1) ELSE Panicked(st1)
    ELSE
      LET h1 == Append(st.heap, Cell(Zero(originalValue.t)))
          newPtr == PtrV(PtrTo(originalValue.t), Len(h1))
      IN IF newPtr.t # original.t THEN Panicked([st EXCEPT !.heap = h1])
         ELSE Bind(copyRecursive(originalValue,
                     Logged(Entered([st EXCEPT !.heap = h1], original.a, newPtr),
                            <<"traverse", original.a, newPtr.a>>)),
                LAMBDA r :
                  IF r.st.panic THEN r
                  ELSE Ret(newPtr, [r.st EXCEPT !.heap[newPtr.a] = Cell(r.v)]))

\* case reflect.Ptr
copyPtr(original, st) ==
  IF original.a = 0 THEN Ret(Zero(original.t), st)
  ELSE IF original.a \in DOMAIN st.visited THEN
    LET v == st.visited[original.a]
        st1 == Logged(st, <<"hit", original.a, v.a>>)
    IN IF v.t = original.t THEN Ret(v, st1) ELSE Panicked(st1)
  ELSE IF hasDeepCopyMethod(original) THEN
    LET r == callDeepCopy(original, st.heap) IN
    IF r.panic THEN Panicked(st)
    ELSE IF r.v.t # original.t THEN
      LET h1 == Append(st.heap, Cell(r.v))
          newPtr == PtrV(PtrTo(r.v.t), Len(h1))
      IN IF newPtr.t # original.t THEN Panicked([st EXCEPT !.heap = h1])
         ELSE Ret(newPtr, Entered([st EXCEPT !.heap = h1], original.a, newPtr))
    ELSE Ret(r.v, Entered(st, original.a, r.v))
  ELSE
    LET originalValue == Elem(original, st.heap) IN
    IF hasDeepCopyMethod(originalValue) THEN
      LET r == callDeepCopy(originalValue, st.heap)
          h1 == Append(st.heap, Cell(r.v))
          newPtr == PtrV(PtrTo(r.v.t), Len(h1))
      IN IF r.panic THEN Panicked(st)
         ELSE IF newPtr.t # original.t THEN Panicked([st EXCEPT !.heap = h1])
         ELSE Ret(newPtr, Entered([st EXCEPT !.heap = h1], original.a, newPtr))
    ELSE
      LET h1 == Append(st.heap, Cell(Zero(originalValue.t)))
          newPtr == PtrV(PtrTo(originalValue.t), Len(h1))
      IN IF newPtr.t # original.t THEN Panicked([st EXCEPT !.heap = h1])
         ELSE Bind(copyRecursive(originalValue,
                     Logged(Entered([st EXCEPT !.heap = h1], original.a, newPtr),
                            <<"traverse", original.a, newPtr.a>>)),
                LAMBDA r :
                  IF r.st.panic THEN r
                  ELSE Ret(newPtr, [r.st EXCEPT !.heap[newPtr.a] = Cell(r.v)]))

\* case reflect.Interface
copyInterface(original, st) ==
  IF original.d = <<>> THEN Ret(Zero(original.t), st)
  ELSE Bind(copyRecursive(original.d[1], st), LAMBDA r :
         IF r.st.panic THEN r ELSE Ret(IfaceV(original.t, <<r.v>>), r.st))

\* the struct case as one assignment of the whole struct: no field is
\* traversed
copyStructShallow(original, st) == Ret(original, st)

\* case reflect.Struct
copyStruct(original, st) ==
  IF original.t = "time.Time" THEN Ret(original, st)
  ELSE IF hasDeepCopyMethod(original) THEN
    LET r == callDeepCopy(original, st.heap) IN
    IF r.panic \/ r.v.t # original.t THEN Panicked(st) ELSE Ret(r.v, st)
  ELSE copyFields(original, 1, Zero(original.t).f, st)

\* the slice case without the allocation: the copy keeps the source's
\* backing store
copySliceShared(original, st) == Ret(original, st)

\* the slice case with a destination of the source's length only: the
\* capacity beyond the length is dropped
copySliceTight(original, st) ==
  IF original.a = 0 THEN Ret(Zero(original.t), st)
  ELSE
    LET h1 == Append(st.heap, Store([i \in 1..original.len |-> Zero(TypeTable[original.t].elem)]))
        cpy == SliceV(original.t, Len(h1), original.len, original.len)
    IN Bind(copyElems(SubSeq(st.heap[original.a].e, 1, original.len), 1, <<>>,
                      [st EXCEPT !.heap = h1]),
         LAMBDA r :
           IF r.st.panic THEN r
           ELSE Ret(cpy, [r.st EXCEPT !.heap[cpy.a] = Store(r.v)]))

\* the slice case with the visitation table consulted for the backing store:
\* a store met again gets the destination recorded for it
copySliceTracked(original, st) ==
  IF original.a = 0 THEN Ret(Zero(original.t), st)
  ELSE IF original.a \in DOMAIN st.visited
    THEN Ret(SliceV(original.t, st.visited[original.a].a, original.len, original.cap), st)
  ELSE IF Frame(original, st) \in st.frames THEN Overflowed(st)
  ELSE
    LET elemT == TypeTable[original.t].elem
        h1 == Append(st.heap, Store([i \in 1..original.cap |-> Zero(elemT)]))
        cpy == SliceV(original.t, Len(h1), original.len, original.cap)
    IN Bind(copyElems(SubSeq(st.heap[original.a].e, 1, original.len), 1, <<>>,
                      [st EXCEPT !.heap = h1, !.frames = @ \cup {Frame(original, st)}]),
         LAMBDA r :
           IF r.st.panic THEN r
           ELSE Ret(cpy, [r.st EXCEPT !.frames = st.frames,
                            !.visited = (original.a :> cpy) @@ @,
                            !.heap[cpy.a] =
                            Store([i \in 1..original.cap |->
                                     IF i <= original.len THEN r.v[i] ELSE Zero(elemT)])]))

\* case reflect.Slice
copySlice(original, st) ==
  IF original.a = 0 THEN Ret(Zero(original.t), st)
  ELSE IF Frame(original, st) \in st.frames THEN Overflowed(st)
  ELSE
    LET elemT == TypeTable[original.t].elem
        h1 == Append(st.heap, Store([i \in 1..original.cap |-> Zero(elemT)]))
        cpy == SliceV(original.t, Len(h1), original.len, original.cap)
    IN Bind(copyElems(SubSeq(st.heap[original.a].e, 1, original.len), 1, <<>>,
                      [st EXCEPT !.heap = h1, !.frames = @ \cup {Frame(original, st)}]),
         LAMBDA r :
           IF r.st.panic THEN r
           ELSE Ret(cpy, [r.st EXCEPT !.frames = st.frames,
                            !.heap[cpy.a] =
                            Store([i \in 1..original.cap |->
                                     IF i <= original.len THEN r.v[i] ELSE Zero(elemT)])]))

\* the map case moving the entries: every entry copied is deleted from the
\* source
copyMapDraining(original, st) ==
  IF original.a = 0 THEN Ret(Zero(original.t), st)
  ELSE IF Frame(original, st) \in st.frames THEN Overflowed(st)
  ELSE
    LET h1 == Append(st.heap, Table(<<>>))
        cpy == MapV(original.t, Len(h1))
    IN Bind(copyEntries(st.heap[original.a].m, 1, <<>>,
                        [st EXCEPT !.heap = h1, !.frames = @ \cup {Frame(original, st)}]),
         LAMBDA r :
           IF r.st.panic THEN r
           ELSE Ret(cpy, [r.st EXCEPT !.frames = st.frames, !.heap[cpy.a] = Table(r.v),
                                      !.heap[original.a] = Table(<<>>)]))

\* case reflect.Map
copyMap(original, st) ==
  IF original.a = 0 THEN Ret(Zero(original.t), st)
  ELSE IF Frame(original, st) \in st.frames THEN Overflowed(st)
  ELSE
    LET h1 == Append(st.heap, Table(<<>>))
        cpy == MapV(original.t, Len(h1))
    IN Bind(copyEntries(st.heap[original.a].m, 1, <<>>,
                        [st EXCEPT !.heap = h1, !.frames = @ \cup {Frame(original, st)}]),
         LAMBDA r :
           IF r.st.panic THEN r
           ELSE Ret(cpy, [r.st EXCEPT !.frames = st.frames, !.heap[cpy.a] = Table(r.v)]))

\* case reflect.Array
copyArray(original, st) ==
  Bind(copyElems(original.e, 1, <<>>, st), LAMBDA r :
    IF r.st.panic THEN r ELSE Ret(ArrayV(original.t, r.v), r.st))

copyRecursive(original, st) ==
  IF st.panic THEN Ret(Invalid, st)
  ELSE CASE original.k = "ptr" -> copyPtr(original, st)
         [] original.k = "interface" -> copyInterface(original, st)
         [] original.k = "struct" -> copyStruct(original, st)
         [] original.k = "slice" -> copySlice(original, st)
         [] original.k = "map" -> copyMap(original, st)
         [] original.k = "array" -> copyArray(original, st)
         [] original.k \in {"chan", "func", "unsafe"} -> Ret(original, st)
         [] OTHER -> Ret(original, st)

\* the loop over the fields without the test of field.PkgPath: unexported
\* fields are copied like the others
copyFieldsAll(original, i, acc, st) ==
  IF st.panic THEN Ret(Invalid, st)
  ELSE IF i > Len(original.f) THEN Ret(StructV(original.t, acc), st)
  ELSE Bind(copyRecursive(original.f[i], st), LAMBDA r :
         IF r.st.panic THEN r
         ELSE copyFields(original, i + 1, [acc EXCEPT ![i] = r.v], r.st))

\* the loop over the fields of a struct: acc holds the fields of cpy
copyFields(original, i, acc, st) ==
  IF st.panic THEN Ret(Invalid, st)
  ELSE IF i > Len(original.f) THEN Ret(StructV(original.t, acc), st)
  ELSE IF ~TypeTable[original.t].fields[i].exp
    THEN copyFields(original, i + 1, acc, st)
  ELSE Bind(copyRecursive(original.f[i], st), LAMBDA r :
         IF r.st.panic THEN r
         ELSE copyFields(original, i + 1, [acc EXCEPT ![i] = r.v], r.st))

\* the loop over the elements with a visitation table of its own for every
\* element
copyElemsApart(elems, i, acc, st) ==
  IF st.panic THEN Ret(Invalid, st)
  ELSE IF i > Len(elems) THEN Ret(acc, st)
  ELSE Bind(copyRecursive(elems[i], [st EXCEPT !.visited = EmptyMap]), LAMBDA r :
         IF r.st.panic THEN r
         ELSE copyElems(elems, i + 1, Append(acc, r.v), r.st))

\* the loop over the elements of a slice or an array
copyElems(elems, i, acc, st) ==
  IF st.panic THEN Ret(Invalid, st)
  ELSE IF i > Len(elems) THEN Ret(acc, st)
  ELSE Bind(copyRecursive(elems[i], st), LAMBDA r :
         IF r.st.panic THEN r
         ELSE copyElems(elems, i + 1, Append(acc, r.v), r.st))

\* the loop over the keys of a map: the value is copied first, then the key
copyEntries(m, i, acc, st) ==
  IF st.panic THEN Ret(Invalid, st)
  ELSE IF i > Len(m) THEN Ret(acc, st)
  ELSE Bind(copyRecursive(m[i].val, st), LAMBDA rv :
         IF rv.st.panic THEN rv
         ELSE Bind(copyRecursive(m[i].key, rv.st), LAMBDA rk :
                IF rk.st.panic THEN rk
                ELSE copyEntries(m, i + 1, SetMapIndex(acc, rk.v, rv.v), rk.st)))

(***************************************************************************)
(* The traversal CopyWithKey uses: copyRecursive with the cached analysis  *)
(* result of the node handed down (nil, here NoAnalysis, below pointers,   *)
(* interfaces, slices, maps and arrays).                                   *)
(***************************************************************************)
NoAnalysis == Analysis("none", EmptyMap)

\* typeInfo.FieldAnalysis[name], nil when typeInfo or the entry is missing
fieldTypeInfo(typeInfo, name) ==
  IF typeInfo.root \notin DOMAIN typeInfo.pass THEN NoAnalysis
  ELSE LET fa == typeInfo.pass[typeInfo.root].FieldAnalysis IN
       IF \E j \in 1..Len(fa) : fa[j].name = name
       THEN Analysis(fa[CHOOSE j \in 1..Len(fa) : fa[j].name = name].ref, typeInfo.pass)
       ELSE NoAnalysis

RECURSIVE copyRecursiveWithCache(_, _, _)
RECURSIVE copyFieldsWithCache(_, _, _, _, _)
RECURSIVE copyElemsWithCache(_, _, _, _)
RECURSIVE copyEntriesWithCache(_, _, _, _)

\* copyRecursiveWithCache, case reflect.Ptr
copyPtrWithCache(original, st) ==
  IF original.a = 0 THEN Ret(Zero(original.t), st)
  ELSE IF original.a \in DOMAIN st.visited THEN
    LET v == st.visited[original.a]
        st1 == Logged(st, <<"hit", original.a, v.a>>)
    IN IF v.t = original.t THEN Ret(v, st1) ELSE Panicked(st1)
  ELSE IF hasDeepCopyMethod(original) THEN
    LET r == callDeepCopy(original, st.heap) IN
    IF r.panic THEN Panicked(st)
    ELSE IF r.v.t # original.t THEN
      LET h1 == Append(st.heap, Cell(r.v))
          newPtr == PtrV(PtrTo(r.v.t), Len(h1))
      IN IF newPtr.t # original.t THEN Panicked([st EXCEPT !.heap = h1])
         ELSE Ret(newPtr, Entered([st EXCEPT !.heap = h1], original.a, newPtr))
    ELSE Ret(r.v, Entered(st, original.a, r.v))
  ELSE
    LET originalValue == Elem(original, st.heap) IN
    IF hasDeepCopyMethod(originalValue) THEN
      LET r == callDeepCopy(originalValue, st.heap)
          h1 == Append(st.heap, Cell(r.v))
          newPtr == PtrV(PtrTo(r.v.t), Len(h1))
      IN IF r.panic THEN Panicked(st)
         ELSE IF newPtr.t # original.t THEN Panicked([st EXCEPT !.heap = h1])
         ELSE Ret(newPtr, Entered([st EXCEPT !.heap = h1], original.a, newPtr))
    ELSE
      LET h1 == Append(st.heap, Cell(Zero(originalValue.t)))
          newPtr == PtrV(PtrTo(originalValue.t), Len(h1))
      IN IF newPtr.t # original.t THEN Panicked([st EXCEPT !.heap = h1])
         ELSE Bind(copyRecursiveWithCache(originalValue,
                     Logged(Entered([st EXCEPT !.heap = h1], original.a, newPtr),
                            <<"traverse", original.a, newPtr.a>>), NoAnalysis),
                LAMBDA r :
                  IF r.st.panic THEN r
                  ELSE Ret(newPtr, [r.st EXCEPT !.heap[newPtr.a] = Cell(r.v)]))

\* copyRecursiveWithCache, case reflect.Interface
copyInterfaceWithCache(original, st) ==
  IF original.d = <<>> THEN Ret(Zero(original.t), st)
  ELSE Bind(copyRecursiveWithCache(original.d[1], st, NoAnalysis), LAMBDA r :
         IF r.st.panic THEN r ELSE Ret(IfaceV(original.t, <<r.v>>), r.st))

\* copyRecursiveWithCache, case reflect.Struct
copyStructWithCache(original, st, typeInfo) ==
  IF original.t = "time.Time" THEN Ret(original, st)
  ELSE IF hasDeepCopyMethod(original) THEN
    LET r == callDeepCopy(original, st.heap) IN
    IF r.panic \/ r.v.t # original.t THEN Panicked(st) ELSE Ret(r.v, st)
  ELSE copyFieldsWithCache(original, 1, Zero(original.t).f, st, typeInfo)

\* copyRecursiveWithCache, case reflect.Slice
copySliceWithCache(original, st) ==
  IF original.a = 0 THEN Ret(Zero(original.t), st)
  ELSE IF Frame(original, st) \in st.frames THEN Overflowed(st)
  ELSE
    LET elemT == TypeTable[original.t].elem
        h1 == Append(st.heap, Store([i \in 1..original.cap |-> Zero(elemT)]))
        cpy == SliceV(original.t, Len(h1), original.len, original.cap)
    IN Bind(copyElemsWithCache(SubSeq(st.heap[original.a].e, 1, original.len), 1, <<>>,
                      [st EXCEPT !.heap = h1, !.frames = @ \cup {Frame(original, st)}]),
         LAMBDA r :
           IF r.st.panic THEN r
           ELSE Ret(cpy, [r.st EXCEPT !.frames = st.frames,
                            !.heap[cpy.a] =
                            Store([i \in 1..original.cap |->
                                     IF i <= original.len THEN r.v[i] ELSE Zero(elemT)])]))

\* copyRecursiveWithCache, case reflect.Map
copyMapWithCache(original, st) ==
  IF original.a = 0 THEN Ret(Zero(original.t), st)
  ELSE IF Frame(original, st) \in st.frames THEN Overflowed(st)
  ELSE
    LET h1 == Append(st.heap, Table(<<>>))
        cpy == MapV(original.t, Len(h1))
    IN Bind(copyEntriesWithCache(st.heap[original.a].m, 1, <<>>,
                        [st EXCEPT !.heap = h1, !.frames = @ \cup {Frame(original, st)}]),
         LAMBDA r :
           IF r.st.panic THEN r
           ELSE Ret(cpy, [r.st EXCEPT !.frames = st.frames, !.heap[cpy.a] = Table(r.v)]))

\* copyRecursiveWithCache, case reflect.Array
copyArrayWithCache(original, st) ==
  Bind(copyElemsWithCache(original.e, 1, <<>>, st), LAMBDA r :
    IF r.st.panic THEN r ELSE Ret(ArrayV(original.t, r.v), r.st))

copyRecursiveWithCache(original, st, typeInfo) ==
  IF st.panic THEN Ret(Invalid, st)
  ELSE CASE original.k = "ptr" -> copyPtrWithCache(original, st)
         [] original.k = "interface" -> copyInterfaceWithCache(original, st)
         [] original.k = "struct" -> copyStructWithCache(original, st, typeInfo)
         [] original.k = "slice" -> copySliceWithCache(original, st)
         [] original.k = "map" -> copyMapWithCache(original, st)
         [] original.k = "array" -> copyArrayWithCache(original, st)
         [] original.k \in {"chan", "func", "unsafe"} -> Ret(original, st)
         [] OTHER -> Ret(original, st)

\* copyRecursiveWithCache: the loop over the fields of a struct: acc holds the fields of cpy
copyFieldsWithCache(original, i, acc, st, typeInfo) ==
  IF st.panic THEN Ret(Invalid, st)
  ELSE IF i > Len(original.f) THEN Ret(StructV(original.t, acc), st)
  ELSE IF ~TypeTable[original.t].fields[i].exp
    THEN copyFieldsWithCache(original, i + 1, acc, st, typeInfo)
  ELSE Bind(copyRecursiveWithCache(original.f[i], st,
              fieldTypeInfo(typeInfo, TypeTable[original.t].fields[i].name)), LAMBDA r :
         IF r.st.panic THEN r
         ELSE copyFieldsWithCache(original, i + 1, [acc EXCEPT ![i] = r.v], r.st, typeInfo))

\* copyRecursiveWithCache: the loop over the elements of a slice or an array
copyElemsWithCache(elems, i, acc, st) ==
  IF st.panic THEN Ret(Invalid, st)
  ELSE IF i > Len(elems) THEN Ret(acc, st)
  ELSE Bind(copyRecursiveWithCache(elems[i], st, NoAnalysis), LAMBDA r :
         IF r.st.panic THEN r
         ELSE copyElemsWithCache(elems, i + 1, Append(acc, r.v), r.st))

\* copyRecursiveWithCache: the loop over the keys of a map: the value is copied first, then the key
copyEntriesWithCache(m, i, acc, st) ==
  IF st.panic THEN Ret(Invalid, st)
  ELSE IF i > Len(m) THEN Ret(acc, st)
  ELSE Bind(copyRecursiveWithCache(m[i].val, st, NoAnalysis), LAMBDA rv :
         IF rv.st.panic THEN rv
         ELSE Bind(copyRecursiveWithCache(m[i].key, rv.st, NoAnalysis), LAMBDA rk :
                IF rk.st.panic THEN rk
                ELSE copyEntriesWithCache(m, i + 1, SetMapIndex(acc, rk.v, rv.v), rk.st)))

(***************************************************************************)
(* Entry points.  The world w holds the heap and the three caches; an      *)
(* entry point yields the world afterwards, whether it panicked, and the   *)
(* value it returned.                                                      *)
(***************************************************************************)
Managers == {"default", "m1", "m2"}

Keys == {"k1"}

AnyT == "interface {}"

Out(w, p, ret) == [w |-> w, panic |-> p, overflow |-> FALSE, ret |-> ret]

\* the outcome of a call whose traversal ended in the state st
Traversed(w, st, ret) ==
  [w |-> [w EXCEPT !.heap = st.heap, !.log = st.log], panic |-> st.panic,
   overflow |-> st.overflow,
   ret |-> IF st.panic THEN Invalid ELSE ret]

\* the conversion of a value to interface{} at a call of CopyValue(src)
ToAny(s) == IF s.k = "interface" THEN IfaceV(AnyT, s.d) ELSE IfaceV(AnyT, <<s>>)

\* x.(T) for an interface{} value x: the value of static type T, or a panic
TypeAssert(w, T, x) ==
  IF x.d = <<>> THEN Out(w, TRUE, Invalid)
  ELSE IF KindOf(T) = "interface" THEN Out(w, FALSE, IfaceV(T, x.d))
  ELSE IF x.d[1].t = T THEN Out(w, FALSE, x.d[1])
  ELSE Out(w, TRUE, Invalid)

NewVisited(h) ==
  [heap |-> h, visited |-> EmptyMap, frames |-> {}, panic |-> FALSE, overflow |-> FALSE,
   log |-> <<>>]

\* CopyValue from the analysis on without the value-only shortcut
CopyAnalyzedNoShortcut(analysis, s, w) ==
  Bind(ValueOf(s), LAMBDA srcVal :
    IF hasDeepCopyMethod(srcVal) THEN
      Bind(callDeepCopy(srcVal, w.heap), LAMBDA r :
        IF r.panic THEN Out(w, TRUE, Invalid)
        ELSE Out(w, FALSE, IfaceV(AnyT, <<r.v>>)))
    ELSE
      Bind(copyRecursive(srcVal, NewVisited(w.heap)), LAMBDA r :
        Traversed(w, r.st, IfaceV(AnyT, <<r.v>>))))

\* DeepCopyManager.CopyValue(src) from the analysis of the type of src on
\* (the shortcut, the override, the traversal)
CopyAnalyzed(analysis, s, w) ==
  Bind(ValueOf(s), LAMBDA srcVal :
    IF IsOnlyValues(analysis) THEN Out(w, FALSE, s)
    ELSE IF hasDeepCopyMethod(srcVal) THEN
      Bind(callDeepCopy(srcVal, w.heap), LAMBDA r :
        IF r.panic THEN Out(w, TRUE, Invalid)
        ELSE Out(w, FALSE, IfaceV(AnyT, <<r.v>>)))
    ELSE
      Bind(copyRecursive(srcVal, NewVisited(w.heap)), LAMBDA r :
        Traversed(w, r.st, IfaceV(AnyT, <<r.v>>))))

\* CopyValue with the analysis cache of the default manager whatever the
\* receiver is
CopyValueOnDefault(m, s, w) ==
  Bind(ValueOf(s), LAMBDA srcVal :
    IF srcVal.k = "invalid" THEN Out(w, FALSE, IfaceV(AnyT, <<>>))
    ELSE
      Bind(getOrAnalyzeType(w.analysisCache["default"], srcVal.t), LAMBDA g :
        CopyAnalyzed(g.an, s, [w EXCEPT !.analysisCache["default"] = g.cache])))

\* DeepCopyManager.CopyValue(src) on manager m
CopyValue(m, s, w) ==
  Bind(ValueOf(s), LAMBDA srcVal :
    IF srcVal.k = "invalid" THEN Out(w, FALSE, IfaceV(AnyT, <<>>))
    ELSE
      Bind(getOrAnalyzeType(w.analysisCache[m], srcVal.t), LAMBDA g :
        CopyAnalyzed(g.an, s, [w EXCEPT !.analysisCache[m] = g.cache])))

\* getTypedManager[T]() followed by its getOrAnalyzeType(): the analysis the
\* manager of T holds and the world afterwards.  The manager of the nil type
\* is made anew at every call and never stored.
TypedAnalysis(T, w) ==
  Bind(StaticRType(T), LAMBDA rtype :
    IF rtype = "nil" THEN [an |-> NilAnalysis, w |-> w]
    ELSE IF rtype \in DOMAIN w.typedManagers
      THEN [an |-> w.typedManagers[rtype], w |-> w]
    ELSE Bind(getOrAnalyzeType(w.analysisCache["default"], rtype), LAMBDA g :
           [an |-> g.an,
            w |-> [w EXCEPT !.analysisCache["default"] = g.cache,
                            !.typedManagers = (rtype :> g.an) @@ @]]))

\* Copy[T](src) with the classification consulted before the override
CopyClassifyFirst(T, s, w) ==
  Bind(ValueOf(s), LAMBDA srcVal :
    IF srcVal.k = "invalid" THEN Out(w, FALSE, Zero(T))
    ELSE
      Bind(TypedAnalysis(T, w), LAMBDA ta :
        IF IsOnlyValues(ta.an) THEN Out(ta.w, FALSE, s)
        ELSE IF hasDeepCopyMethod(srcVal) THEN
          Bind(callDeepCopy(srcVal, ta.w.heap), LAMBDA r :
            IF r.panic THEN Out(ta.w, TRUE, Invalid)
            ELSE TypeAssert(ta.w, T, IfaceV(AnyT, <<r.v>>)))
        ELSE Bind(CopyValue("default", ToAny(s), ta.w), LAMBDA o :
               IF o.panic THEN o ELSE TypeAssert(o.w, T, o.ret))))

\* Copy[T](src)
Copy(T, s, w) ==
  Bind(ValueOf(s), LAMBDA srcVal :
    IF srcVal.k = "invalid" THEN Out(w, FALSE, Zero(T))
    ELSE IF hasDeepCopyMethod(srcVal) THEN
      Bind(callDeepCopy(srcVal, w.heap), LAMBDA r :
        IF r.panic THEN Out(w, TRUE, Invalid)
        ELSE TypeAssert(w, T, IfaceV(AnyT, <<r.v>>)))
    ELSE
      Bind(TypedAnalysis(T, w), LAMBDA ta :
        IF IsOnlyValues(ta.an) THEN Out(ta.w, FALSE, s)
        ELSE Bind(CopyValue("default", ToAny(s), ta.w), LAMBDA o :
               IF o.panic THEN o ELSE TypeAssert(o.w, T, o.ret))))

\* initializeCopyInfo(info): the analysis of info.rtype by the default manager
initializeCopyInfo(rtype, w) ==
  IF rtype = "nil"
  THEN [info |-> [rtype |-> rtype, IsOnlyValues |-> TRUE, analysisResult |-> NoAnalysis],
        w |-> w]
  ELSE Bind(getOrAnalyzeType(w.analysisCache["default"], rtype), LAMBDA g :
         [info |-> [rtype |-> rtype, IsOnlyValues |-> IsOnlyValues(g.an),
                    analysisResult |-> g.an],
          w |-> [w EXCEPT !.analysisCache["default"] = g.cache]])

\* getOrCreateBusinessCopyInfo[T](key) without the lookup: an entry is made
\* and stored at every call
getOrCreateAnew(T, key, w) ==
  Bind(initializeCopyInfo(StaticRType(T), w), LAMBDA g :
    [info |-> g.info,
     w |-> [g.w EXCEPT !.businessCopyCache =
              [k \in DOMAIN @ \cup {key} |-> IF k = key THEN g.info ELSE @[k]]]])

\* getOrCreateBusinessCopyInfo[T](key)
getOrCreateBusinessCopyInfo(T, key, w) ==
  IF key \in DOMAIN w.businessCopyCache
  THEN [info |-> w.businessCopyCache[key], w |-> w]
  ELSE Bind(initializeCopyInfo(StaticRType(T), w), LAMBDA g :
         [info |-> g.info,
          w |-> [g.w EXCEPT !.businessCopyCache = (key :> g.info) @@ @]])

\* DeepCopyManager.AnalyzeValue(src) on manager m
AnalyzeValue(m, s, w) ==
  Bind(ValueOf(s), LAMBDA srcVal :
    IF srcVal.k = "invalid" THEN [an |-> NilAnalysis, w |-> w]
    ELSE Bind(getOrAnalyzeType(w.analysisCache[m], srcVal.t), LAMBDA g :
           [an |-> g.an, w |-> [w EXCEPT !.analysisCache[m] = g.cache]]))

\* CopyWithKey[T](src, key) from the entry copyInfo of the key on
CopyWithInfo(T, s, copyInfo, w) ==
  Bind(ValueOf(s), LAMBDA srcVal :
    IF copyInfo.IsOnlyValues THEN Out(w, FALSE, s)
    ELSE IF srcVal.k = "invalid" THEN Out(w, FALSE, Zero(T))
    ELSE IF hasDeepCopyMethod(srcVal) THEN
      Bind(callDeepCopy(srcVal, w.heap), LAMBDA r :
        IF r.panic THEN Out(w, TRUE, Invalid)
        ELSE TypeAssert(w, T, IfaceV(AnyT, <<r.v>>)))
    ELSE
      Bind(copyRecursiveWithCache(srcVal, NewVisited(w.heap), copyInfo.analysisResult),
        LAMBDA r :
          IF r.st.panic THEN Traversed(w, r.st, Invalid)
          ELSE TypeAssert([w EXCEPT !.heap = r.st.heap, !.log = r.st.log], T,
                          IfaceV(AnyT, <<r.v>>))))

\* CopyWithKey[T](src, key)
CopyWithKey(T, s, key, w) ==
  Bind(getOrCreateBusinessCopyInfo(T, key, w), LAMBDA g :
    CopyWithInfo(T, s, g.info, g.w))

(***************************************************************************)
(* Observers of the heap: the addresses a value reaches.                   *)
(***************************************************************************)
RECURSIVE AddrsIn(_)
\* the addresses held directly in the value v
AddrsIn(v) ==
  CASE v.k \in {"ptr", "slice", "map"} -> IF v.a = 0 THEN {} ELSE {v.a}
    [] v.k = "interface" -> IF v.d = <<>> THEN {} ELSE AddrsIn(v.d[1])
    [] v.k = "struct" -> UNION {AddrsIn(v.f[i]) : i \in 1..Len(v.f)}
    [] v.k = "array" -> UNION {AddrsIn(v.e[i]) : i \in 1..Len(v.e)}
    [] OTHER -> {}

ObjAddrs(o) ==
  CASE o.ok = "cell" -> AddrsIn(o.v)
    [] o.ok = "store" -> UNION {AddrsIn(o.e[i]) : i \in 1..Len(o.e)}
    [] o.ok = "table" ->
         UNION {AddrsIn(o.m[i].key) \cup AddrsIn(o.m[i].val) : i \in 1..Len(o.m)}

RECURSIVE Closure(_, _)
Closure(S, h) ==
  LET N == S \cup UNION {ObjAddrs(h[a]) : a \in S}
  IN IF N = S THEN S ELSE Closure(N, h)

\* every address reachable from v in heap h
Reach(v, h) == Closure(AddrsIn(v), h)

RECURSIVE Poison(_)
\* a write that changes every part of the value v
Poison(v) ==
  CASE v.k = "int" -> IntV(v.n + 1)
    [] v.k = "string" -> StrV(v.s \o "!")
    [] v.k = "interface" -> IF v.d = <<>> THEN IfaceV(v.t, <<IntV(1)>>) ELSE Zero(v.t)
    [] v.k = "struct" -> StructV(v.t, [i \in 1..Len(v.f) |-> Poison(v.f[i])])
    [] v.k = "array" -> ArrayV(v.t, [i \in 1..Len(v.e) |-> Poison(v.e[i])])
    [] v.k \in {"ptr", "slice", "map"} -> Zero(v.t)
    [] OTHER -> v

\* a write through a pointer, to the elements of a slice, or to a map
\* (every entry deleted and one inserted)
PoisonObj(o) ==
  CASE o.ok = "cell" -> Cell(Poison(o.v))
    [] o.ok = "store" -> Store([i \in 1..Len(o.e) |-> Poison(o.e[i])])
    [] o.ok = "table" -> Table(<<Entry(IntV(99), IntV(99))>>)

(***************************************************************************)
(* Source values: a heap h and a root value v of a concrete type (or the   *)
(* nil interface).                                                         *)
(***************************************************************************)
Source(h, v) == [h |-> h, v |-> v]

NodeName == <<"A", "B", "C", "D", "E", "F">>

PCirc(a) == PtrV("*CircularStruct", a)

IsRing(n, nx) == \A i \in 1..n : \E j \in 1..n : nx[j] = i

\* n nodes, node i pointing to nx[i] (0 = nil) through Next and, when dbl,
\* to its predecessor through Prev
NodeHeap(n, nx, dbl) ==
  [i \in 1..n |->
     Cell(StructV("CircularStruct",
       <<StrV(NodeName[i]), PCirc(nx[i]),
         PCirc(IF dbl THEN CHOOSE j \in 1..n : nx[j] = i ELSE 0)>>))]

NodeHeaps ==
  UNION {
    {NodeHeap(n, nx, FALSE) : nx \in [1..n -> 0..n]} \cup
    {NodeHeap(n, nx, TRUE) : nx \in {f \in [1..n -> 1..n] : IsRing(n, f)}}
    : n \in 1..MaxNodes}

TwoNodeHeaps == {NodeHeap(2, nx, FALSE) : nx \in [1..2 -> 0..2]}

\* a pointer to the first node, and the first node by value
NodeSources ==
  {Source(h, PCirc(1)) : h \in NodeHeaps} \cup
  {Source(h, h[1].v) : h \in NodeHeaps}

\* slices, maps, arrays and interface slices of pointers into a two-node heap
ContainerSources ==
  UNION {
    UNION {
      { Source(Append(h, Store([i \in 1..l |-> PCirc(e[i])])),
               SliceV("[]*CircularStruct", 3, l, l)),
        Source(Append(h, Table([i \in 1..l |-> Entry(IntV(i), PCirc(e[i]))])),
               MapV("map[int]*CircularStruct", 3)),
        Source(Append(h, Store([i \in 1..l |-> IfaceV(AnyT, <<PCirc(e[i])>>)])),
               SliceV("[]interface {}", 3, l, l)) }
      : e \in [1..l -> 0..2]}
    : l \in 0..MaxLen, h \in TwoNodeHeaps} \cup
  { Source(h, ArrayV("[2]*CircularStruct", <<PCirc(a), PCirc(b)>>))
    : a \in 0..2, b \in 0..2, h \in TwoNodeHeaps }

IntSlices ==
  {Source(<<>>, Zero("[]int"))} \cup
  { Source(<<Store([i \in 1..(l + x) |-> IntV(10 * i)])>>, SliceV("[]int", 1, l, l + x))
    : l \in 0..MaxLen, x \in {0, 1} }

UnexportedValues ==
  { Source(IF ref THEN <<Store(<<IntV(1), IntV(2)>>),
                         Table(<<Entry(StrV("a"), StrV("b"))>>)>>
           ELSE <<>>,
           StructV("Unexported",
             <<StrV("A"), IntV(42),
               IF val THEN StrV("aa") ELSE StrV(""),
               IF val THEN IntV(11) ELSE IntV(0),
               IF ref THEN SliceV("[]int", 1, 2, 2) ELSE Zero("[]int"),
               IF ref THEN MapV("map[string]string", 2) ELSE Zero("map[string]string")>>))
    : val \in BOOLEAN, ref \in BOOLEAN }

\* the value x.v behind a pointer of type pt
Boxed(x, pt) == Source(Append(x.h, Cell(x.v)), PtrV(pt, Len(x.h) + 1))

OverrideSources ==
  LET c == Source(<<>>, StructV("CustomCopier", <<IntV(42)>>))
      i == StructV("I", <<StrV("test")>>)
      pi == Boxed(Source(<<>>, i), "*I")
      ni == Source(pi.h, StructV("NestI", <<pi.v>>))
      pc == Boxed(c, "*CustomCopier")
  IN { c, pc, pi, ni, Boxed(ni, "*NestI"),
       Source(<<>>, Zero("*I")), Source(<<>>, Zero("*CustomCopier")),
       Source(<<>>, Zero("NestI")),
       Source(<<>>, StructV("WithCustom", <<IntV(1), c.v>>)),
       Source(Append(pc.h, Store(<<pc.v, pc.v>>)), SliceV("[]*CustomCopier", 2, 2, 2)) }

\* a map stored as one of its own values, and a slice of interfaces whose
\* element holds the slice itself
LoopSources ==
  { Source(<<Table(<<Entry(StrV("self"),
                            IfaceV(AnyT, <<MapV("map[string]interface {}", 1)>>))>>)>>,
           MapV("map[string]interface {}", 1)),
    Source(<<Store(<<IfaceV(AnyT, <<SliceV("[]interface {}", 1, 1, 1)>>)>>)>>,
           SliceV("[]interface {}", 1, 1, 1)) }

\* s := &CircularStruct{Name: "A"} next to &s.Name, the pointer to its first
\* field: two pointers of different types that hold one address
AliasSources ==
  LET h == <<Cell(StructV("CircularStruct", <<StrV("A"), PCirc(0), PCirc(0)>>))>>
      whole == IfaceV(AnyT, <<PCirc(1)>>)
      first == IfaceV(AnyT, <<PtrV("*string", 1)>>)
  IN { Source(Append(h, Store(<<whole, first>>)), SliceV("[]interface {}", 2, 2, 2)),
       Source(Append(h, Store(<<first, whole>>)), SliceV("[]interface {}", 2, 2, 2)),
       Source(h, PtrV("*string", 1)) }

\* maps: string keys, struct keys with an unexported field (two keys that
\* differ in it alone, and two that differ in the exported field too), and
\* pointer keys
MapSources ==
  LET key(i, g) == StructV("Key", <<IntV(i), StrV(g)>>)
      h == NodeHeap(2, <<2, 0>>, FALSE)
  IN { Source(<<Table([i \in 1..l |-> Entry(StrV(NodeName[i]), StrV(NodeName[i + 1]))])>>,
              MapV("map[string]string", 1)) : l \in 0..MaxLen } \cup
     { Source(<<Table(<<Entry(key(1, "a"), IntV(1)), Entry(key(i, "b"), IntV(2))>>)>>,
              MapV("map[Key]int", 1)) : i \in 1..2 } \cup
     { Source(Append(h, Table(<<Entry(PCirc(1), IntV(1)), Entry(PCirc(2), IntV(2))>>)),
              MapV("map[*CircularStruct]int", 3)) }

\* one slice backing store or one map held twice, by two elements of a slice
\* of interfaces or by two values of a map: s := []int{1, 2} as s and s[:1],
\* a map twice, a slice of pointers twice
SharedStoreSources ==
  LET box(v) == IfaceV(AnyT, <<v>>)
      ints == Store(<<IntV(1), IntV(2)>>)
      node == Cell(StructV("CircularStruct", <<StrV("A"), PCirc(0), PCirc(0)>>))
      twice(a, b) == Store(<<box(a), box(b)>>)
  IN { Source(<<ints, twice(SliceV("[]int", 1, 2, 2), SliceV("[]int", 1, 1, 2))>>,
              SliceV("[]interface {}", 2, 2, 2)),
       Source(<<Table(<<Entry(StrV("a"), StrV("b"))>>),
                twice(MapV("map[string]string", 1), MapV("map[string]string", 1))>>,
              SliceV("[]interface {}", 2, 2, 2)),
       Source(<<node, Store(<<PCirc(1)>>),
                twice(SliceV("[]*CircularStruct", 2, 1, 1), SliceV("[]*CircularStruct", 2, 1, 1))>>,
              SliceV("[]interface {}", 3, 2, 2)),
       Source(<<ints, Table(<<Entry(StrV("x"), box(SliceV("[]int", 1, 2, 2))),
                              Entry(StrV("y"), box(SliceV("[]int", 1, 2, 2)))>>)>>,
              MapV("map[string]interface {}", 2)) }

PlainSources ==
  { Source(<<>>, IntV(42)),
    Source(<<>>, StructV("OnlyValueStruct", <<StrV("Test"), IntV(25)>>)),
    Source(<<>>, StructV("time.Time", <<IntV(7), IntV(9)>>)),
    Source(<<>>, IfaceV(AnyT, <<>>)),
    Source(<<>>, Zero("*CircularStruct")),
    Source(<<>>, Zero("map[int]*CircularStruct")),
    Source(<<Table(<<>>)>>, MapV("map[int]*CircularStruct", 1)),
    Source(<<Store(<<IntV(5)>>)>>,
           StructV("WithChan", <<ChanV("chan int", 1), SliceV("[]int", 1, 1, 1)>>)) }

SmallSources ==
  PlainSources \cup IntSlices \cup UnexportedValues \cup
  {Boxed(x, "*Unexported") : x \in UnexportedValues} \cup OverrideSources \cup
  LoopSources \cup AliasSources \cup MapSources \cup SharedStoreSources

GraphSources == SmallSources \cup NodeSources \cup ContainerSources

(***************************************************************************)
(* The state machine.  src is the caller's value, rooted in the first      *)
(* srcSize objects of the heap; everything above srcSize was allocated by  *)
(* the last call.  last records the last call and what it returned; wrote  *)
(* records a write the caller made after it, with the heap before it.      *)
(***************************************************************************)
NoInfo == [rtype |-> "", IsOnlyValues |-> FALSE, analysisResult |-> NoAnalysis]

NoCall ==
  [op |-> "none", T |-> "", key |-> "", newKey |-> FALSE, info |-> NoInfo, mgr |-> "",
   panic |-> FALSE, overflow |-> FALSE, ret |-> Invalid, an |-> NoAnalysis,
   log |-> <<>>]

NoWrite == [side |-> "none", a |-> 0, before |-> <<>>]

\* the goroutines of the concurrent executions
Procs == {"g1", "g2"}

NoId == <<>>

NoOut == [panic |-> FALSE, overflow |-> FALSE, ret |-> Invalid, heap |-> <<>>]

\* a goroutine that has not made its call
Idle ==
  [pc |-> "idle", op |-> "none", T |-> "", key |-> "", mgr |-> "", t |-> "",
   ret |-> "", tm |-> NoId, copyInfo |-> NoInfo, analysis |-> NoAnalysis,
   nobj |-> 0, out |-> NoOut]

NoHist ==
  [inits |-> {}, stored |-> {}, obtained |-> {}, first |-> [k \in Keys |-> <<>>],
   analysed |-> {}, results |-> {}]

InitWith(S) ==
  /\ \E x \in S : heap = x.h /\ src = x.v /\ srcSize = Len(x.h)
  /\ analysisCache = [m \in Managers |-> EmptyMap]
  /\ typedManagers = EmptyMap
  /\ businessCopyCache = EmptyMap
  /\ last = NoCall
  /\ wrote = NoWrite
  /\ thr = [p \in Procs |-> Idle]
  /\ tms = EmptyMap
  /\ hist = NoHist

Init == InitWith(SmallSources)

InitGraph == InitWith(GraphSources)

\* the world a call starts in: the result of the call before is dropped
World ==
  [heap |-> SubSeq(heap, 1, srcSize), analysisCache |-> analysisCache,
   typedManagers |-> typedManagers, businessCopyCache |-> businessCopyCache,
   log |-> <<>>]

\* the static types the caller can pass src under
StaticTypes == IF src.k = "interface" THEN {AnyT} ELSE {src.t, AnyT}

\* src as an argument of static type T
Arg(T) == IF KindOf(T) = "interface" THEN ToAny(src) ELSE src

Returned(o, rec) ==
  /\ heap' = o.w.heap
  /\ analysisCache' = o.w.analysisCache
  /\ typedManagers' = o.w.typedManagers
  /\ businessCopyCache' = o.w.businessCopyCache
  /\ last' = [rec EXCEPT !.log = o.w.log]
  /\ UNCHANGED <<src, srcSize, wrote, thr, tms, hist>>

DoCopy ==
  /\ wrote = NoWrite
  /\ \E T \in StaticTypes :
       \E o \in {Copy(T, Arg(T), World)} :
          Returned(o, [NoCall EXCEPT !.op = "Copy", !.T = T, !.panic = o.panic,
                                     !.overflow = o.overflow, !.ret = o.ret])

\* CopyWithKey of src; info records the entry the lookup of the key yields
DoCopyWithKey ==
  /\ wrote = NoWrite
  /\ \E T \in StaticTypes, key \in Keys :
       \E o \in {CopyWithKey(T, Arg(T), key, World)},
          g \in {getOrCreateBusinessCopyInfo(T, key, World)} :
          Returned(o, [NoCall EXCEPT !.op = "CopyWithKey", !.T = T, !.key = key,
                                     !.newKey = key \notin DOMAIN businessCopyCache,
                                     !.info = g.info, !.panic = o.panic,
                                     !.overflow = o.overflow, !.ret = o.ret])

\* the types of the other values the caller copies under the keys
OtherTypes == {"[]int", "Unexported"}

\* CopyWithKey of another value of the caller, the zero value of type T
DoCopyWithKeyOther ==
  /\ wrote = NoWrite
  /\ \E T \in OtherTypes, key \in Keys :
       \E o \in {CopyWithKey(T, Zero(T), key, World)},
          g \in {getOrCreateBusinessCopyInfo(T, key, World)} :
          Returned(o, [NoCall EXCEPT !.op = "CopyWithKeyOther", !.T = T, !.key = key,
                                     !.newKey = key \notin DOMAIN businessCopyCache,
                                     !.info = g.info, !.panic = o.panic,
                                     !.overflow = o.overflow, !.ret = o.ret])

DoCopyValue ==
  /\ wrote = NoWrite
  /\ \E m \in Managers :
       \E o \in {CopyValue(m, ToAny(src), World)} :
          Returned(o, [NoCall EXCEPT !.op = "CopyValue", !.mgr = m, !.panic = o.panic,
                                     !.overflow = o.overflow, !.ret = o.ret])

DoAnalyzeValue ==
  /\ wrote = NoWrite
  /\ \E m \in Managers :
       \E g \in {AnalyzeValue(m, ToAny(src), World)} :
          Returned([w |-> g.w],
                   [NoCall EXCEPT !.op = "AnalyzeValue", !.mgr = m, !.an = g.an])

CopyOps == {"Copy", "CopyWithKey", "CopyValue"}

\* the caller writes through an address the returned copy reaches
WriteCopy ==
  /\ wrote = NoWrite
  /\ last.op \in CopyOps /\ ~last.panic
  /\ \E a \in Reach(last.ret, heap) :
       /\ heap' = [heap EXCEPT ![a] = PoisonObj(@)]
       /\ wrote' = [side |-> "copy", a |-> a, before |-> heap]
  /\ UNCHANGED <<src, srcSize, analysisCache, typedManagers, businessCopyCache, last,
                 thr, tms, hist>>

\* the caller writes through an address the source reaches
WriteSource ==
  /\ wrote = NoWrite
  /\ last.op \in CopyOps /\ ~last.panic
  /\ \E a \in Reach(src, heap) :
       /\ heap' = [heap EXCEPT ![a] = PoisonObj(@)]
       /\ wrote' = [side |-> "source", a |-> a, before |-> heap]
  /\ UNCHANGED <<src, srcSize, analysisCache, typedManagers, businessCopyCache, last,
                 thr, tms, hist>>

Next ==
  \/ DoCopy
  \/ DoCopyWithKey
  \/ DoCopyWithKeyOther
  \/ DoCopyValue
  \/ DoAnalyzeValue
  \/ WriteCopy
  \/ WriteSource

Spec == Init /\ [][Next]_vars

\* Copy alone, on the larger family of source graphs
NextGraph ==
  \/ DoCopy
  \/ WriteCopy
  \/ WriteSource

SpecGraph == InitGraph /\ [][NextGraph]_vars

(***************************************************************************)
(* The classifier alone.  A manager is asked for the analysis of a type,   *)
(* held in last.T: every type of TypeTable but the interface types, the    *)
(* type reflect.TypeOf gives for a value being never an interface type     *)
(* (interface types are analysed as the types of fields and elements).     *)
(***************************************************************************)
AnalysableTypes == {t \in TypeNames : KindOf(t) # "interface"}

InitTypes ==
  /\ heap = <<>> /\ src = Invalid /\ srcSize = 0
  /\ analysisCache = [m \in Managers |-> EmptyMap]
  /\ typedManagers = EmptyMap
  /\ businessCopyCache = EmptyMap
  /\ \E t \in AnalysableTypes : last = [NoCall EXCEPT !.T = t]
  /\ wrote = NoWrite
  /\ thr = [p \in Procs |-> Idle]
  /\ tms = EmptyMap
  /\ hist = NoHist

\* m.getOrAnalyzeType(t) for the type t = last.T
DoGetOrAnalyzeType ==
  \E m \in Managers :
    \E g \in {getOrAnalyzeType(analysisCache[m], last.T)} :
      /\ analysisCache' = [analysisCache EXCEPT ![m] = g.cache]
      /\ last' = [last EXCEPT !.op = "getOrAnalyzeType", !.mgr = m, !.an = g.an]
      /\ UNCHANGED <<heap, src, srcSize, typedManagers, businessCopyCache, wrote,
                     thr, tms, hist>>

NextTypes == DoGetOrAnalyzeType

SpecTypes == InitTypes /\ [][NextTypes]_vars

(***************************************************************************)
(* Concurrent callers.  Every goroutine of Procs makes one call on the     *)
(* caller's value src; a call is a sequence of steps, one for each access  *)
(* to the shared caches (a Load or a Store of a sync.Map, a sync.Once),    *)
(* the code between two accesses being local to the goroutine.  Objects    *)
(* made by a goroutine (analysis results, cache entries, typed managers)   *)
(* carry an identity id: the goroutine and the number of the object.  thr  *)
(* holds the goroutines' locals, tms the typed manager objects, hist what  *)
(* happened: the goroutines that ran initializeCopyInfo for a key, the     *)
(* entries stored and obtained for a key (first: the entry obtained        *)
(* first), the analysis results made and obtained for a manager and type.  *)
(***************************************************************************)
ConcSources ==
  { Source(<<>>, StructV("OnlyValueStruct", <<StrV("Test"), IntV(25)>>)),
    Source(<<>>, StructV("CustomCopier", <<IntV(42)>>)),
    Source(<<>>, IfaceV(AnyT, <<>>)),
    Source(NodeHeap(1, <<1>>, FALSE), PCirc(1)) }

InitConc == InitWith(ConcSources)

ConcManagers == {"default", "m1"}

NewId(p) == <<p, thr[p].nobj + 1>>

\* the outcome of a finished call, with the heap it allocated in
Finished(o) == [panic |-> o.panic, overflow |-> o.overflow, ret |-> o.ret, heap |-> o.w.heap]

\* the goroutine p goes on as r
Step(p, r, h) ==
  /\ thr' = [thr EXCEPT ![p] = r]
  /\ hist' = h
  /\ UNCHANGED <<heap, src, srcSize, last, wrote>>

\* getOrCreateBusinessCopyInfo returned copyInfo for key
Obtained(key, copyInfo) ==
  [hist EXCEPT !.obtained = @ \cup {<<key, copyInfo.id>>},
               !.first[key] = IF @ = <<>> THEN <<copyInfo>> ELSE @]

\* getOrAnalyzeType of manager m, or the typed manager of t, returned result
Result(m, t, result) ==
  [hist EXCEPT !.results = @ \cup {<<m, t, result.id>>}]

\* CopyWithKey[T](src, key) is called
CallCopyWithKey(p) ==
  /\ thr[p].pc = "idle"
  /\ \E T \in StaticTypes, key \in Keys :
       Step(p, [thr[p] EXCEPT !.pc = "bLoad", !.op = "CopyWithKey", !.T = T, !.key = key],
            hist)
  /\ UNCHANGED <<analysisCache, typedManagers, businessCopyCache, tms>>

\* getOrCreateBusinessCopyInfo: businessCopyCache.Load(key)
LoadCopyInfo(p) ==
  /\ thr[p].pc = "bLoad"
  /\ IF thr[p].key \in DOMAIN businessCopyCache
     THEN \E cached \in {businessCopyCache[thr[p].key]} :
            Step(p, [thr[p] EXCEPT !.pc = "bCopy", !.copyInfo = cached],
                 Obtained(thr[p].key, cached))
     ELSE Step(p, [thr[p] EXCEPT !.pc = "bInit"], hist)
  /\ UNCHANGED <<analysisCache, typedManagers, businessCopyCache, tms>>

\* getOrCreateBusinessCopyInfo: the new entry and its once.Do, which runs
\* initializeCopyInfo up to the lookup of the default manager's cache
InitCopyInfo(p) ==
  /\ thr[p].pc = "bInit"
  /\ \E rtype \in {StaticRType(thr[p].T)},
        h \in {[hist EXCEPT !.inits = @ \cup {<<thr[p].key, p>>}]} :
       IF rtype = "nil"
       THEN Step(p, [thr[p] EXCEPT !.pc = "bStore", !.analysis = NoAnalysis], h)
       ELSE Step(p, [thr[p] EXCEPT !.pc = "aLoad", !.mgr = "default", !.t = rtype,
                                   !.ret = "bStore"], h)
  /\ UNCHANGED <<analysisCache, typedManagers, businessCopyCache, tms>>

\* the end of initializeCopyInfo and businessCopyCache.Store(key, copyInfo)
StoreCopyInfo(p) ==
  /\ thr[p].pc = "bStore"
  /\ \E rtype \in {StaticRType(thr[p].T)} :
     \E copyInfo \in {[rtype |-> rtype,
                       IsOnlyValues |-> IF rtype = "nil" THEN TRUE
                                        ELSE IsOnlyValues(thr[p].analysis),
                       analysisResult |-> thr[p].analysis,
                       id |-> NewId(p)]} :
       /\ businessCopyCache' = (thr[p].key :> copyInfo) @@ businessCopyCache
       /\ Step(p, [thr[p] EXCEPT !.pc = "bCopy", !.copyInfo = copyInfo, !.nobj = @ + 1],
               [Obtained(thr[p].key, copyInfo) EXCEPT
                  !.stored = @ \cup {<<thr[p].key, copyInfo.id>>}])
  /\ UNCHANGED <<analysisCache, typedManagers, tms>>

\* CopyWithKey from the entry on
FinishCopyWithKey(p) ==
  /\ thr[p].pc = "bCopy"
  /\ \E o \in {CopyWithInfo(thr[p].T, Arg(thr[p].T), thr[p].copyInfo, World)} :
       Step(p, [thr[p] EXCEPT !.pc = "done", !.out = Finished(o)], hist)
  /\ UNCHANGED <<analysisCache, typedManagers, businessCopyCache, tms>>

\* DeepCopyManager.getOrAnalyzeType: analysisCache.Load(t)
LoadAnalysis(p) ==
  /\ thr[p].pc = "aLoad"
  /\ IF thr[p].t \in DOMAIN analysisCache[thr[p].mgr]
     THEN \E cached \in {analysisCache[thr[p].mgr][thr[p].t]} :
            Step(p, [thr[p] EXCEPT !.pc = thr[p].ret, !.analysis = cached],
                 Result(thr[p].mgr, thr[p].t, cached))
     ELSE Step(p, [thr[p] EXCEPT !.pc = "aStore"], hist)
  /\ UNCHANGED <<analysisCache, typedManagers, businessCopyCache, tms>>

\* getOrAnalyzeType storing the result when it is made, before its analysis:
\* the cache holds the placeholder, the caller goes on with the result
StoreAnalysisEarly(p) ==
  /\ thr[p].pc = "aStore"
  /\ \E result \in {[root |-> thr[p].t,
                     pass |-> analyzeTypeRecursive(thr[p].t, EmptyMap),
                     id |-> NewId(p)]} :
       /\ analysisCache' =
            [analysisCache EXCEPT ![thr[p].mgr] =
               (thr[p].t :> [result EXCEPT !.pass = (thr[p].t :> NewResult(thr[p].t))]) @@ @]
       /\ Step(p, [thr[p] EXCEPT !.pc = thr[p].ret, !.analysis = result, !.nobj = @ + 1],
               [Result(thr[p].mgr, thr[p].t, result) EXCEPT
                  !.analysed = @ \cup {<<thr[p].mgr, thr[p].t, result.id>>}])
  /\ UNCHANGED <<typedManagers, businessCopyCache, tms>>

\* DeepCopyManager.getOrAnalyzeType: the analysis and analysisCache.Store
StoreAnalysis(p) ==
  /\ thr[p].pc = "aStore"
  /\ \E result \in {[root |-> thr[p].t,
                     pass |-> analyzeTypeRecursive(thr[p].t, EmptyMap),
                     id |-> NewId(p)]} :
       /\ analysisCache' =
            [analysisCache EXCEPT ![thr[p].mgr] = (thr[p].t :> result) @@ @]
       /\ Step(p, [thr[p] EXCEPT !.pc = thr[p].ret, !.analysis = result, !.nobj = @ + 1],
               [Result(thr[p].mgr, thr[p].t, result) EXCEPT
                  !.analysed = @ \cup {<<thr[p].mgr, thr[p].t, result.id>>}])
  /\ UNCHANGED <<typedManagers, businessCopyCache, tms>>

\* m.AnalyzeValue(src) is called
CallAnalyzeValue(p) ==
  /\ thr[p].pc = "idle"
  /\ \E m \in ConcManagers, srcVal \in {ValueOf(ToAny(src))} :
       IF srcVal.k = "invalid"
       THEN Step(p, [thr[p] EXCEPT !.pc = "done", !.op = "AnalyzeValue", !.mgr = m,
                                   !.analysis = NilAnalysis], hist)
       ELSE Step(p, [thr[p] EXCEPT !.pc = "aLoad", !.op = "AnalyzeValue", !.mgr = m,
                                   !.t = srcVal.t, !.ret = "done"], hist)
  /\ UNCHANGED <<analysisCache, typedManagers, businessCopyCache, tms>>

\* m.CopyValue(src) is called
CallCopyValue(p) ==
  /\ thr[p].pc = "idle"
  /\ \E m \in ConcManagers, srcVal \in {ValueOf(ToAny(src))} :
       IF srcVal.k = "invalid"
       THEN Step(p, [thr[p] EXCEPT !.pc = "done", !.op = "CopyValue", !.mgr = m,
                       !.out = Finished(Out(World, FALSE, IfaceV(AnyT, <<>>)))], hist)
       ELSE Step(p, [thr[p] EXCEPT !.pc = "aLoad", !.op = "CopyValue", !.mgr = m,
                                   !.t = srcVal.t, !.ret = "vCopy"], hist)
  /\ UNCHANGED <<analysisCache, typedManagers, businessCopyCache, tms>>

\* CopyValue from the analysis on, and the type assertion of Copy after it
FinishCopyValue(p) ==
  /\ thr[p].pc = "vCopy"
  /\ \E o \in {CopyAnalyzed(thr[p].analysis, ToAny(src), World)} :
       Step(p, [thr[p] EXCEPT !.pc = "done",
                  !.out = IF thr[p].op = "Copy" /\ ~o.panic
                          THEN Finished(TypeAssert(o.w, thr[p].T, o.ret))
                          ELSE Finished(o)], hist)
  /\ UNCHANGED <<analysisCache, typedManagers, businessCopyCache, tms>>

\* Copy[T](src) is called: it returns at once for an invalid source, for an
\* override and for an interface type T, whose manager is not shared
CallCopy(p) ==
  /\ thr[p].pc = "idle"
  /\ \E T \in StaticTypes :
     \E srcVal \in {ValueOf(Arg(T))} :
       IF srcVal.k = "invalid" \/ hasDeepCopyMethod(srcVal) \/ StaticRType(T) = "nil"
       THEN \E o \in {Copy(T, Arg(T), World)} :
              Step(p, [thr[p] EXCEPT !.pc = "done", !.op = "Copy", !.T = T,
                                     !.out = Finished(o)], hist)
       ELSE Step(p, [thr[p] EXCEPT !.pc = "tLoad", !.op = "Copy", !.T = T], hist)
  /\ UNCHANGED <<analysisCache, typedManagers, businessCopyCache, tms>>

\* getTypedManager: typedManagers.Load(rtype)
LoadTypedManager(p) ==
  /\ thr[p].pc = "tLoad"
  /\ IF thr[p].T \in DOMAIN typedManagers
     THEN Step(p, [thr[p] EXCEPT !.pc = "tOnce", !.tm = typedManagers[thr[p].T]], hist)
     ELSE Step(p, [thr[p] EXCEPT !.pc = "tStore"], hist)
  /\ UNCHANGED <<analysisCache, typedManagers, businessCopyCache, tms>>

\* getTypedManager: the new manager and typedManagers.Store(rtype, manager)
StoreTypedManager(p) ==
  /\ thr[p].pc = "tStore"
  /\ \E id \in {NewId(p)} :
       /\ tms' = (id :> [rtype |-> thr[p].T, once |-> "new", analysis |-> NoAnalysis]) @@ tms
       /\ typedManagers' = (thr[p].T :> id) @@ typedManagers
       /\ Step(p, [thr[p] EXCEPT !.pc = "tOnce", !.tm = id, !.nobj = @ + 1], hist)
  /\ UNCHANGED <<analysisCache, businessCopyCache>>

\* TypedCopyManager.getOrAnalyzeType: once.Do, which waits while another
\* goroutine runs the function
OnceTypedManager(p) ==
  /\ thr[p].pc = "tOnce"
  /\ tms[thr[p].tm].once # "running"
  /\ IF tms[thr[p].tm].once = "done"
     THEN /\ Step(p, [thr[p] EXCEPT !.pc = "cCopy", !.analysis = tms[thr[p].tm].analysis],
                  Result("default", thr[p].T, tms[thr[p].tm].analysis))
          /\ UNCHANGED tms
     ELSE /\ tms' = [tms EXCEPT ![thr[p].tm].once = "running"]
          /\ Step(p, [thr[p] EXCEPT !.pc = "aLoad", !.mgr = "default", !.t = thr[p].T,
                                    !.ret = "tOnceEnd"], hist)
  /\ UNCHANGED <<analysisCache, typedManagers, businessCopyCache>>

\* the end of the function of once.Do: tm.analysis is set
EndOnceTypedManager(p) ==
  /\ thr[p].pc = "tOnceEnd"
  /\ tms' = [tms EXCEPT ![thr[p].tm].analysis = thr[p].analysis,
                        ![thr[p].tm].once = "done"]
  /\ Step(p, [thr[p] EXCEPT !.pc = "cCopy"], hist)
  /\ UNCHANGED <<analysisCache, typedManagers, businessCopyCache>>

\* Copy from the analysis on: the shortcut, or defaultManager.CopyValue(src)
CopyTyped(p) ==
  /\ thr[p].pc = "cCopy"
  /\ IF IsOnlyValues(thr[p].analysis)
     THEN Step(p, [thr[p] EXCEPT !.pc = "done",
                     !.out = Finished(Out(World, FALSE, Arg(thr[p].T)))], hist)
     ELSE Step(p, [thr[p] EXCEPT !.pc = "aLoad", !.mgr = "default",
                     !.t = ValueOf(Arg(thr[p].T)).t, !.ret = "vCopy"], hist)
  /\ UNCHANGED <<analysisCache, typedManagers, businessCopyCache, tms>>

NextConc ==
  \E p \in Procs :
    \/ CallCopyWithKey(p)
    \/ LoadCopyInfo(p)
    \/ InitCopyInfo(p)
    \/ StoreCopyInfo(p)
    \/ FinishCopyWithKey(p)
    \/ LoadAnalysis(p)
    \/ StoreAnalysis(p)
    \/ CallAnalyzeValue(p)
    \/ CallCopyValue(p)
    \/ FinishCopyValue(p)
    \/ CallCopy(p)
    \/ LoadTypedManager(p)
    \/ StoreTypedManager(p)
    \/ OnceTypedManager(p)
    \/ EndOnceTypedManager(p)
    \/ CopyTyped(p)

SpecConc == InitConc /\ [][NextConc]_vars

(***************************************************************************)
(* Observers used to state the properties: the correspondence between the  *)
(* source graph and the copy graph, position by position.                  *)
(***************************************************************************)
\* the source part of the heap
SrcHeap == SubSeq(heap, 1, srcSize)

\* the indexes of the exported fields of struct type t
Exported(t) == {i \in 1..Len(TypeTable[t].fields) : TypeTable[t].fields[i].exp}

RECURSIVE TypeClosure(_)
\* every type the types of S are built from
TypeClosure(S) ==
  LET parts(t) ==
        LET d == TypeTable[t] IN
        CASE d.kind \in {"ptr", "slice", "array"} -> {d.elem}
          [] d.kind = "map" -> {d.key, d.elem}
          [] d.kind = "struct" -> {d.fields[i].type : i \in 1..Len(d.fields)}
          [] OTHER -> {}
      N == S \cup UNION {parts(t) : t \in S}
  IN IF N = S THEN S ELSE TypeClosure(N)

\* the types with a DeepCopy method in their method set
OverrideTypes == {t \in TypeNames : MethodByNameDeepCopy(t)}

\* the graph of v holds no value of an override type: neither its static
\* types nor the dynamic types of its interface values
NoOverrideTypes(v, h) ==
  /\ TypeClosure({v.t}) \cap OverrideTypes = {}
  /\ \A a \in Reach(v, h) :
       h[a].ok = "store" =>
         \A i \in 1..Len(h[a].e) :
           LET e == h[a].e[i] IN
           e.k = "interface" /\ e.d # <<>> =>
             TypeClosure({e.d[1].t}) \cap OverrideTypes = {}

RECURSIVE Pairs(_, _)
\* the addresses two values hold at corresponding exported positions, with
\* the length of the slice for a pair of slices and -1 otherwise
Pairs(sv, cv) ==
  IF sv.k # cv.k THEN {}
  ELSE CASE sv.k \in {"ptr", "map"} ->
              IF sv.a = 0 \/ cv.a = 0 THEN {} ELSE {<<sv.a, cv.a, -1>>}
         [] sv.k = "slice" ->
              IF sv.a = 0 \/ cv.a = 0 \/ sv.len # cv.len THEN {}
              ELSE {<<sv.a, cv.a, sv.len>>}
         [] sv.k = "interface" ->
              IF sv.d = <<>> \/ cv.d = <<>> THEN {} ELSE Pairs(sv.d[1], cv.d[1])
         [] sv.k = "struct" ->
              IF sv.t # cv.t THEN {}
              ELSE UNION {Pairs(sv.f[i], cv.f[i]) : i \in Exported(sv.t)}
         [] sv.k = "array" ->
              IF sv.t # cv.t THEN {}
              ELSE UNION {Pairs(sv.e[i], cv.e[i]) : i \in 1..Len(sv.e)}
         [] OTHER -> {}

RECURSIVE Same(_, _)
\* the two values agree in type, scalars, nil-ness, length and handles at
\* every exported position
Same(sv, cv) ==
  /\ sv.k = cv.k
  /\ sv.t = cv.t
  /\ CASE sv.k \in {"ptr", "map"} -> (sv.a = 0) <=> (cv.a = 0)
       [] sv.k = "slice" -> ((sv.a = 0) <=> (cv.a = 0)) /\ sv.len = cv.len /\ sv.cap = cv.cap
       [] sv.k = "interface" ->
            /\ (sv.d = <<>>) <=> (cv.d = <<>>)
            /\ sv.d # <<>> /\ cv.d # <<>> => Same(sv.d[1], cv.d[1])
       [] sv.k = "struct" ->
            IF sv.t = "time.Time" THEN sv = cv
            ELSE \A i \in Exported(sv.t) : Same(sv.f[i], cv.f[i])
       [] sv.k = "array" -> \A i \in 1..Len(sv.e) : Same(sv.e[i], cv.e[i])
       [] OTHER -> sv = cv

\* the pairs the objects behind a pair hold
PairsObj(o, c, n) ==
  IF o.ok # c.ok THEN {}
  ELSE CASE o.ok = "cell" -> Pairs(o.v, c.v)
         [] o.ok = "store" ->
              UNION {Pairs(o.e[i], c.e[i]) : i \in 1..n}
         [] o.ok = "table" ->
              IF Len(o.m) # Len(c.m) THEN {}
              ELSE UNION {Pairs(o.m[i].key, c.m[i].key) \cup Pairs(o.m[i].val, c.m[i].val)
                          : i \in 1..Len(o.m)}

SameObj(o, c, n) ==
  /\ o.ok = c.ok
  /\ CASE o.ok = "cell" -> Same(o.v, c.v)
       [] o.ok = "store" ->
            /\ Len(o.e) = Len(c.e)
            /\ \A i \in 1..n : Same(o.e[i], c.e[i])
       [] o.ok = "table" ->
            /\ Len(o.m) = Len(c.m)
            /\ \A i \in 1..Len(o.m) :
                 Same(o.m[i].key, c.m[i].key) /\ Same(o.m[i].val, c.m[i].val)

RECURSIVE Match(_, _)
Match(P, h) ==
  LET N == P \cup UNION {PairsObj(h[p[1]], h[p[2]], p[3]) : p \in P}
  IN IF N = P THEN P ELSE Match(N, h)

\* every pair of addresses at corresponding positions of the two graphs
Corresponding(sv, cv, h) == Match(Pairs(sv, cv), h)

\* the two graphs agree at every corresponding position
SameGraph(sv, cv, h) ==
  /\ Same(sv, cv)
  /\ \A p \in Corresponding(sv, cv, h) : SameObj(h[p[1]], h[p[2]], p[3])

\* one source address corresponds to one copy address, and conversely
OneToOne(P) ==
  \A p, q \in P : (p[1] = q[1]) <=> (p[2] = q[2])

\* one source address corresponds to one copy address
Functional(P) ==
  \A p, q \in P : p[1] = q[1] => p[2] = q[2]

\* every address of the copy side was allocated by the call
Fresh(P) == \A p \in P : p[2] > srcSize

\* the value a call returned, out of the interface{} it may be boxed in
Got == ValueOf(last.ret)

\* the last call was given src under its own concrete type
ConcreteCall == src.k # "interface" /\ (last.op = "CopyValue" \/ last.T = src.t)


(***************************************************************************)
(* The properties.                                                         *)
(***************************************************************************)

\* C1: Independence.  After Copy of a source of a concrete static type whose
\* graph holds no override type, no address (pointer target, slice backing
\* store, map) is reachable from both the result and the source, a write
\* through any address reachable from the result leaves everything reachable
\* from the source as it was, and a write through any address reachable from
\* the source leaves everything reachable from the result as it was.
\* Channel handles are no addresses: they are the only references shared.
C1_Independence ==
  (last.op = "Copy" /\ ~last.panic /\ ConcreteCall /\ NoOverrideTypes(src, SrcHeap)) =>
    /\ Reach(last.ret, heap) \cap Reach(src, heap) = {}
    /\ wrote.side = "copy" =>
         \A a \in Reach(src, wrote.before) : heap[a] = wrote.before[a]
    /\ wrote.side = "source" =>
         \A a \in Reach(last.ret, wrote.before) : heap[a] = wrote.before[a]

\* a copy of a slice of pointers was written through after Copy returned it
C1_Witness ==
  /\ last.op = "Copy" /\ ~last.panic /\ ConcreteCall
  /\ NoOverrideTypes(src, SrcHeap)
  /\ src.t = "[]*CircularStruct" /\ src.len = 2
  /\ wrote.side = "copy"
  /\ wrote.a \in Reach(last.ret, wrote.before)

\* the sources claim C2 names: a non-nil pointer, slice or map, or a struct
\* with unexported fields, of a type without override
NeedsCopy(v) ==
  /\ ~hasDeepCopyMethod(v)
  /\ \/ v.k \in {"ptr", "slice", "map"} /\ v.a # 0
     \/ v.k = "struct" /\ v.t # "time.Time" /\ hasUnexportedFields(v.t)

\* C2: Copy and CopyWithKey under a static interface type return a value of
\* the same dynamic type that does not alias the source and is what Copy
\* returns for the same value under its concrete static type.
C2_InterfaceStaticType ==
  (last.op \in {"Copy", "CopyWithKey"} /\ KindOf(last.T) = "interface"
     /\ wrote = NoWrite /\ NeedsCopy(src)) =>
    /\ ~last.panic
    /\ Got.t = src.t
    /\ Reach(last.ret, heap) \cap Reach(src, heap) = {}
    /\ \E o \in {Copy(src.t, src, World)} : Got = o.ret /\ heap = o.w.heap


\* some pointer target of the graph of v is reachable from itself
Cyclic(v, h) ==
  \E a \in Reach(v, h) : h[a].ok = "cell" /\ a \in Closure(ObjAddrs(h[a]), h)

\* C3: Cycle safety.  For every source graph whose pointers form a cycle,
\* Copy of the source under its own static type returns a graph isomorphic
\* to the source: the corresponding positions agree (scalars, nil-ness,
\* lengths), the correspondence is a bijection from the source's targets
\* onto the copy's targets, and every target of the copy was allocated by
\* the call.  (Copy under a static interface type is the subject of C2.)
C3_CycleIsomorphism ==
  (last.op = "Copy" /\ ConcreteCall /\ wrote = NoWrite /\ Cyclic(src, SrcHeap)) =>
    /\ ~last.panic
    /\ SameGraph(src, Got, heap)
    /\ \E P \in {Corresponding(src, Got, heap)} :
         /\ OneToOne(P)
         /\ Fresh(P)
         /\ {p[1] : p \in P} = Reach(src, heap)
         /\ {p[2] : p \in P} = Reach(Got, heap)

\* a doubly linked ring of three nodes was copied
C3_Witness ==
  /\ last.op = "Copy" /\ ConcreteCall /\ ~last.panic /\ wrote = NoWrite
  /\ src.t = "*CircularStruct" /\ src.a # 0
  /\ Cyclic(src, SrcHeap)
  /\ Cardinality(Reach(src, SrcHeap)) = 3
  /\ heap[src.a].v.f[3].a # 0
  /\ Cardinality(Reach(Got, heap)) = 3

RECURSIVE SumSeq(_)
SumSeq(q) == IF q = <<>> THEN 0 ELSE Head(q) + SumSeq(Tail(q))

RECURSIVE PtrCount(_, _)
\* how many pointers held in the value v hold the address a
PtrCount(v, a) ==
  CASE v.k = "ptr" -> IF v.a = a THEN 1 ELSE 0
    [] v.k = "interface" -> IF v.d = <<>> THEN 0 ELSE PtrCount(v.d[1], a)
    [] v.k = "struct" -> SumSeq([i \in 1..Len(v.f) |-> PtrCount(v.f[i], a)])
    [] v.k = "array" -> SumSeq([i \in 1..Len(v.e) |-> PtrCount(v.e[i], a)])
    [] OTHER -> 0

PtrCountObj(o, a) ==
  CASE o.ok = "cell" -> PtrCount(o.v, a)
    [] o.ok = "store" -> SumSeq([i \in 1..Len(o.e) |-> PtrCount(o.e[i], a)])
    [] o.ok = "table" -> SumSeq([i \in 1..Len(o.m) |-> PtrCount(o.m[i].val, a)])

\* two pointers of the graph of v hold the same address
SharedTarget(v, h) ==
  \E a \in Reach(v, h) :
    PtrCount(v, a) + SumSeq([b \in 1..Len(h) |->
                               IF b \in Reach(v, h) THEN PtrCountObj(h[b], a) ELSE 0]) >= 2

RECURSIVE PtrTypes(_, _)
\* the types of the pointers held in the value v that hold the address a
PtrTypes(v, a) ==
  CASE v.k = "ptr" -> IF v.a = a THEN {v.t} ELSE {}
    [] v.k = "interface" -> IF v.d = <<>> THEN {} ELSE PtrTypes(v.d[1], a)
    [] v.k = "struct" -> UNION {PtrTypes(v.f[i], a) : i \in 1..Len(v.f)}
    [] v.k = "array" -> UNION {PtrTypes(v.e[i], a) : i \in 1..Len(v.e)}
    [] OTHER -> {}

PtrTypesObj(o, a) ==
  CASE o.ok = "cell" -> PtrTypes(o.v, a)
    [] o.ok = "store" -> UNION {PtrTypes(o.e[i], a) : i \in 1..Len(o.e)}
    [] o.ok = "table" ->
         UNION {PtrTypes(o.m[i].key, a) \cup PtrTypes(o.m[i].val, a) : i \in 1..Len(o.m)}

\* pointers of different types of the graph of v hold the same address (a
\* struct and its first field)
Aliased(v, h) ==
  \E a \in Reach(v, h) :
    Cardinality(PtrTypes(v, a) \cup
                UNION {PtrTypesObj(h[b], a) : b \in Reach(v, h)}) >= 2

\* C4: Shared-substructure preservation.  When two pointers of the source
\* graph hold the same target, Copy of the source under its own static
\* type returns a graph in which the pointers at the corresponding
\* positions hold one address, allocated by the call, whether the target was
\* copied by the traversal or by a DeepCopy override.  (Pointers of
\* different types that hold one address are the subject of C12.)
C4_SharedSubstructure ==
  (last.op = "Copy" /\ ConcreteCall /\ wrote = NoWrite /\ SharedTarget(src, SrcHeap)
     /\ ~Aliased(src, SrcHeap)) =>
    /\ ~last.panic
    /\ \E P \in {Corresponding(src, Got, heap)} :
         /\ Functional(P)
         /\ Fresh(P)
         /\ {p[1] : p \in P} = Reach(src, heap)

\* a slice holding one pointer to an override type twice was copied: the two
\* elements of the copy hold one new address
C4_Witness ==
  /\ last.op = "Copy" /\ ConcreteCall /\ ~last.panic /\ wrote = NoWrite
  /\ src.t = "[]*CustomCopier" /\ SharedTarget(src, SrcHeap)
  /\ Got.k = "slice" /\ Got.a > srcSize
  /\ heap[Got.a].e[1] = heap[Got.a].e[2]
  /\ heap[Got.a].e[1].a > srcSize

RECURSIVE NilKept(_, _)
\* the copy cv is nil where the source sv is nil, and non-nil where it is
\* not, at every exported position of the two values
NilKept(sv, cv) ==
  IF sv.k # cv.k THEN TRUE
  ELSE CASE sv.k \in {"ptr", "map"} -> (sv.a = 0) <=> (cv.a = 0)
         [] sv.k = "slice" ->
              /\ (sv.a = 0) <=> (cv.a = 0)
              /\ sv.len = 0 => cv.len = 0
         [] sv.k = "interface" ->
              /\ (sv.d = <<>>) <=> (cv.d = <<>>)
              /\ sv.d # <<>> /\ cv.d # <<>> => NilKept(sv.d[1], cv.d[1])
         [] sv.k = "struct" ->
              sv.t = cv.t => \A i \in Exported(sv.t) : NilKept(sv.f[i], cv.f[i])
         [] sv.k = "array" ->
              sv.t = cv.t => \A i \in 1..Len(sv.e) : NilKept(sv.e[i], cv.e[i])
         [] OTHER -> TRUE

NilKeptObj(o, c, n) ==
  o.ok = c.ok =>
    CASE o.ok = "cell" -> NilKept(o.v, c.v)
      [] o.ok = "store" -> \A i \in 1..n : NilKept(o.e[i], c.e[i])
      [] o.ok = "table" ->
           /\ Len(o.m) = 0 => Len(c.m) = 0
           /\ Len(o.m) = Len(c.m) =>
                \A i \in 1..Len(o.m) : NilKept(o.m[i].val, c.m[i].val)

\* a nil pointer, slice, map or interface, or a slice or map of length zero
NilOrEmpty(v, h) ==
  \/ IsNil(v)
  \/ v.k = "slice" /\ v.len = 0
  \/ v.k = "map" /\ Len(h[v.a].m) = 0

\* C5: Nil/empty preservation.  Copy, CopyWithKey and CopyValue of a nil
\* pointer, slice, map or interface return nil, of a non-nil slice or map of
\* length zero a non-nil one of length zero, and the copy is nil exactly
\* where the source is at every position the traversal visits.
C5_NilEmptyPreserved ==
  (last.op \in CopyOps /\ wrote = NoWrite) =>
    /\ NilOrEmpty(src, SrcHeap) => ~last.panic
    /\ ~last.panic =>
         /\ NilKept(ToAny(src), ToAny(last.ret))
         /\ \A p \in Corresponding(src, Got, heap) :
              NilKeptObj(heap[p[1]], heap[p[2]], p[3])

\* the struct a value is or points to
Deref(v, h) ==
  IF v.k = "ptr" THEN (IF v.a = 0 THEN Invalid ELSE h[v.a].v) ELSE v

\* the struct cv has the exported fields of sv and zero in every other field
ExportedOnly(sv, cv, h) ==
  /\ cv.k = "struct" /\ cv.t = sv.t
  /\ \A i \in 1..Len(sv.f) :
       IF i \in Exported(sv.t)
       THEN Same(sv.f[i], cv.f[i])
       ELSE cv.f[i] = Zero(TypeTable[sv.t].fields[i].type)

\* the sources that differ from src at most in unexported fields
Variants ==
  {x \in UnexportedValues \cup {Boxed(y, "*Unexported") : y \in UnexportedValues} :
     /\ x.v.t = src.t
     /\ \A i \in Exported("Unexported") :
          Deref(x.v, x.h).f[i] = Deref(src, SrcHeap).f[i]}

RECURSIVE Overridden(_, _, _, _)
\* at every position of the source value sv that holds a value of an
\* override type, the copy cv holds the result of the override: the result
\* itself for a struct, a pointer to it for a non-nil pointer (sh and ch are
\* the heaps of the source and of the copy; the graph of sv has no cycle)
Overridden(sv, cv, sh, ch) ==
  IF sv.k = "struct" /\ hasDeepCopyMethod(sv)
    THEN cv = callDeepCopy(sv, sh).v
  ELSE IF sv.k = "ptr" /\ sv.a # 0 /\ hasDeepCopyMethod(sv)
    THEN cv.k = "ptr" /\ cv.a # 0 /\ ch[cv.a].v = callDeepCopy(sv, sh).v
  ELSE IF sv.k # cv.k THEN FALSE
  ELSE CASE sv.k = "struct" ->
              \A i \in Exported(sv.t) : Overridden(sv.f[i], cv.f[i], sh, ch)
         [] sv.k = "ptr" ->
              sv.a # 0 => cv.a # 0 /\ Overridden(sh[sv.a].v, ch[cv.a].v, sh, ch)
         [] sv.k = "slice" ->
              sv.a # 0 =>
                /\ cv.a # 0 /\ cv.len = sv.len
                /\ \A i \in 1..sv.len :
                     Overridden(sh[sv.a].e[i], ch[cv.a].e[i], sh, ch)
         [] OTHER -> TRUE

\* some position inside the value v, below its top, holds a value of an
\* override type
HoldsOverride(v) ==
  /\ ~hasDeepCopyMethod(v)
  /\ (TypeClosure({v.t}) \ {v.t}) \cap OverrideTypes # {}

\* C8: Override precedence at depth.  Copy of a source that holds values of
\* an override type below its top returns a copy in which each of them is
\* the result of the override, whatever the classification of the enclosing
\* type: so for a struct of a scalar and a by-value field of an override
\* type.
C8_OverrideAtDepth ==
  (last.op = "Copy" /\ ConcreteCall /\ wrote = NoWrite /\ HoldsOverride(src)) =>
    /\ ~last.panic
    /\ Overridden(src, Got, SrcHeap, heap)

\* the override found on the non-nil pointer v returns a value that is no
\* pointer
AdaptsShape(v, h) ==
  /\ v.k = "ptr" /\ v.a # 0
  /\ hasDeepCopyMethod(v)
  /\ callDeepCopy(v, h).v.k # "ptr"

\* C9: Shape adaptation of overrides.  Copy, CopyWithKey (under the pointer
\* type, with a new key) and CopyValue of a non-nil pointer whose override
\* returns a non-pointer value return, without failing, a pointer of the
\* type of the source to a newly allocated cell holding the override's
\* result.
C9_ShapeAdaptation ==
  (last.op \in CopyOps /\ ConcreteCall /\ wrote = NoWrite
     /\ (last.op = "CopyWithKey" => last.newKey)
     /\ AdaptsShape(src, SrcHeap)) =>
    /\ ~last.panic
    /\ Got.k = "ptr" /\ Got.t = src.t
    /\ Got.a > srcSize
    /\ heap[Got.a].v = callDeepCopy(src, SrcHeap).v

\* C10: Entry-point agreement.  For a source of a concrete static type,
\* CopyWithKey under a key not used before and CopyValue return what Copy
\* returns for the same source: the same failure or the same value, with the
\* same objects allocated.
C10_EntryPointAgreement ==
  (last.op \in {"CopyWithKey", "CopyValue"} /\ ConcreteCall /\ wrote = NoWrite
     /\ (last.op = "CopyWithKey" => last.newKey)) =>
    \E o \in {Copy(src.t, src, World)} :
      /\ last.panic = o.panic
      /\ ~last.panic => Got = o.ret /\ heap = o.w.heap

\* C11: Termination.  Every call of Copy, CopyWithKey and CopyValue comes to
\* an end whatever cycles the source graph holds, also cycles that pass
\* through maps, slices and interface values and through no pointer: the
\* traversal never enters a call it is already working on.
C11_Termination ==
  last.op \in CopyOps => ~last.overflow

\* C12: No failure path.  For every source graph without override types,
\* also one in which pointers of different types hold one address, a call of
\* Copy, CopyWithKey or CopyValue that comes to an end returns its result
\* without a runtime panic.  (Unbounded recursion is the subject of C11, the
\* panics of overrides that of C9 and C13.)
C12_NoFailurePath ==
  (last.op \in CopyOps /\ NoOverrideTypes(src, SrcHeap) /\ ~last.overflow) =>
    ~last.panic

\* C13: A typed nil pointer is short-circuited.  For a nil pointer whose type
\* has a DeepCopy override, Copy, CopyWithKey and CopyValue return the nil
\* pointer and do not fail: the override is not called on it.
C13_NilShortCircuit ==
  (last.op \in CopyOps /\ src.k = "ptr" /\ src.a = 0 /\ hasDeepCopyMethod(src)) =>
    /\ ~last.panic
    /\ Got = src

\* the calls of CopyWithKey
KeyOps == {"CopyWithKey", "CopyWithKeyOther"}

\* C14: Call-site cache idempotence.  In a sequential execution, the first
\* CopyWithKey call for a key stores one entry for the key, bound to the
\* caller's type argument and holding the default manager's analysis result
\* of that type and its value-only flag; every later call with the key
\* obtains that stored entry and leaves the call-site cache and every
\* analysis cache as they were (nothing is classified again), whatever type
\* argument it supplies.
C14_KeyIdempotence ==
  [][ last'.op \in KeyOps =>
        \A k \in {last'.key} :
          IF k \in DOMAIN businessCopyCache
          THEN /\ last'.info = businessCopyCache[k]
               /\ businessCopyCache' = businessCopyCache
               /\ analysisCache' = analysisCache
          ELSE /\ DOMAIN businessCopyCache' = DOMAIN businessCopyCache \cup {k}
               /\ \A j \in DOMAIN businessCopyCache :
                    businessCopyCache'[j] = businessCopyCache[j]
               /\ businessCopyCache'[k] = last'.info
               /\ last'.info.rtype = StaticRType(last'.T)
               /\ \A t \in {last'.info.rtype} :
                    IF t = "nil" THEN last'.info.IsOnlyValues
                    ELSE /\ t \in DOMAIN analysisCache'["default"]
                         /\ last'.info.analysisResult = analysisCache'["default"][t]
                         /\ last'.info.IsOnlyValues = IsOnlyValues(last'.info.analysisResult)
                         /\ t \in DOMAIN analysisCache["default"] =>
                              analysisCache' = analysisCache
    ]_vars

\* a later call with the key supplied another type argument than the one the
\* key's entry is bound to, and obtained that entry
C14_Witness ==
  /\ last.op = "CopyWithKey" /\ ~last.newKey /\ ~last.panic
  /\ last.info.rtype # StaticRType(last.T)
  /\ last.info = businessCopyCache[last.key]
  /\ ~last.info.IsOnlyValues

\* C15: Compute-once per key under concurrency.  When several goroutines
\* call CopyWithKey with one key at the same time, one of them at most runs
\* the classification for the key (initializeCopyInfo), one entry object at
\* most is ever stored for the key, and every caller obtains that entry.
C15_ComputeOncePerKey ==
  \A k \in Keys :
    /\ Cardinality({x \in hist.inits : x[1] = k}) <= 1
    /\ Cardinality({x \in hist.stored : x[1] = k}) <= 1
    /\ Cardinality({x \in hist.obtained : x[1] = k}) <= 1

\* C16: Permanent key binding.  Once a caller has obtained the entry of a
\* key, the key is bound for good: at every later moment the call-site cache
\* holds, for that key, an entry of the same type and the same value-only
\* flag, so every later lookup of the key returns such an entry, also when
\* the first calls for the key were made at the same time with different
\* type arguments.
C16_PermanentBinding ==
  \A k \in Keys :
    hist.first[k] # <<>> =>
      /\ k \in DOMAIN businessCopyCache
      /\ businessCopyCache[k].rtype = hist.first[k][1].rtype
      /\ businessCopyCache[k].IsOnlyValues = hist.first[k][1].IsOnlyValues

\* C17: Per-type analysis is computed once.  For a manager and a type,
\* under any interleaving of AnalyzeValue, CopyValue and Copy calls, every
\* call that asks for the analysis of the type obtains one and the same
\* result object, and the type is analysed at most once as a top-level
\* analysis.
C17_AnalysisOnce ==
  \A m \in Managers, t \in TypeNames :
    /\ Cardinality({x \in hist.results : x[1] = m /\ x[2] = t}) <= 1
    /\ Cardinality({x \in hist.analysed : x[1] = m /\ x[2] = t}) <= 1

\* the classifier finds type t value-only
ValueOnly(t) == IsOnlyValues(Analysis(t, analyzeTypeRecursive(t, EmptyMap)))

\* a CopyWithKey call was made under a key bound to its own type argument
\* (a key never used before, or used before with that type argument)
OwnKey == last.op = "CopyWithKey" => last.info.rtype = StaticRType(last.T)

\* C18: Value-only shortcut.  For every source whose type the classifier
\* finds value-only and that has no DeepCopy override, Copy, CopyValue and
\* CopyWithKey (under a key bound to the caller's type argument) return the
\* input itself: the result equals the source field by field, also where a
\* traversal would have replaced a field by the result of its override, and
\* nothing is allocated.
C18_ValueOnlyShortcut ==
  (last.op \in CopyOps /\ OwnKey /\ src.k # "interface"
     /\ ValueOnly(src.t) /\ ~hasDeepCopyMethod(src)) =>
    /\ ~last.panic
    /\ Got = src
    /\ heap = SrcHeap

\* CopyValue returned a struct with a field of an override type unchanged
C18_Witness ==
  /\ last.op = "CopyValue" /\ ~last.panic
  /\ src.t = "WithCustom" /\ ValueOnly(src.t)
  /\ Got = src /\ Got.f[2].f[1].n = 42

\* C19: Manager isolation.  An AnalyzeValue or CopyValue call on a manager
\* works on that manager's analysis cache alone: it adds the result for the
\* type of its argument when the manager's own cache lacks it, whatever the
\* other caches hold, and leaves the default manager's cache, every other
\* manager's cache, the typed managers and the call-site cache unchanged.
C19_ManagerIsolation ==
  [][ \A m \in Managers :
        (last'.op \in {"AnalyzeValue", "CopyValue"} /\ last'.mgr = m) =>
          /\ \A n \in Managers \ {m} : analysisCache'[n] = analysisCache[n]
          /\ businessCopyCache' = businessCopyCache
          /\ typedManagers' = typedManagers
          /\ \A x \in {ValueOf(src)} :
               IF x.k = "invalid" \/ x.t \in DOMAIN analysisCache[m]
               THEN analysisCache'[m] = analysisCache[m]
               ELSE /\ DOMAIN analysisCache'[m] = DOMAIN analysisCache[m] \cup {x.t}
                    /\ \A t \in DOMAIN analysisCache[m] :
                         analysisCache'[m][t] = analysisCache[m][t]
    ]_vars

\* CopyValue on the manager m1 filled the cache of m1, the default manager
\* having analysed nothing and the call-site cache holding an entry
C19_Witness ==
  /\ last.op = "CopyValue" /\ last.mgr = "m1" /\ ~last.panic
  /\ DOMAIN analysisCache["m1"] = {src.t}
  /\ analysisCache["m2"] = EmptyMap
  /\ "k1" \in DOMAIN businessCopyCache
  /\ businessCopyCache["k1"].rtype = "nil"
  /\ analysisCache["default"] = EmptyMap

\* C20: Slice copy.  The copy Copy makes of a non-nil slice (of a concrete
\* static type, without override types) is a slice of the same length and
\* the same capacity over a backing store allocated by the call; element i
\* of the copy is the deep copy of element i of the source for every i below
\* the length: it agrees with it at every position and reaches no address
\* of the source; a write to the elements of the copy leaves the elements
\* of the source as they were.  (Unbounded recursion is the subject of C11,
\* pointers of different types to one address that of C12.)
C20_SliceCopy ==
  (last.op = "Copy" /\ ConcreteCall /\ src.k = "slice" /\ src.a # 0
     /\ NoOverrideTypes(src, SrcHeap) /\ ~Aliased(src, SrcHeap) /\ ~last.overflow) =>
    /\ ~last.panic
    /\ Got.k = "slice" /\ Got.t = src.t
    /\ Got.len = src.len /\ Got.cap = src.cap
    /\ Got.a > srcSize
    /\ Len(heap[Got.a].e) = src.cap
    /\ wrote = NoWrite =>
         /\ SameGraph(src, Got, heap)
         /\ \A i \in 1..src.len :
              /\ Same(heap[src.a].e[i], heap[Got.a].e[i])
              /\ Reach(heap[Got.a].e[i], heap) \cap Reach(src, heap) = {}
    /\ (wrote.side = "copy" /\ wrote.a = Got.a) =>
         heap[src.a] = wrote.before[src.a]

\* a slice of pointers with two elements was copied and the elements of the
\* copy were written
C20_Witness ==
  /\ last.op = "Copy" /\ ConcreteCall /\ ~last.panic
  /\ src.t = "[]*CircularStruct" /\ src.len = 2
  /\ heap[src.a].e[1].a # 0
  /\ wrote.side = "copy" /\ wrote.a = Got.a
  /\ heap[Got.a].e[1].a = 0
  /\ heap[src.a].e[1].a # 0

\* C21: Map copy.  The copy of a non-nil map (given under its concrete type,
\* without override types) is a map allocated by the call that has exactly
\* as many entries as the source, one for each key/value pair of the
\* source, whose key and value agree with the source key and value at every
\* exported position and reach no address of the source, for every key
\* type (string keys, struct keys with unexported fields, pointer keys);
\* an entry inserted into the source afterwards does not appear in the copy.
C21_MapCopy ==
  (last.op \in CopyOps /\ ConcreteCall /\ OwnKey /\ src.k = "map" /\ src.a # 0
     /\ NoOverrideTypes(src, SrcHeap) /\ ~last.overflow) =>
    /\ ~last.panic
    /\ Got.k = "map" /\ Got.t = src.t
    /\ Got.a > srcSize
    /\ wrote = NoWrite =>
         /\ Len(heap[Got.a].m) = Len(heap[src.a].m)
         /\ \A i \in 1..Len(heap[src.a].m) :
              \E j \in 1..Len(heap[Got.a].m) :
                /\ Same(heap[src.a].m[i].key, heap[Got.a].m[j].key)
                /\ Same(heap[src.a].m[i].val, heap[Got.a].m[j].val)
         /\ Reach(Got, heap) \cap Reach(src, heap) = {}
    /\ (wrote.side = "source" /\ wrote.a = src.a) =>
         heap[Got.a] = wrote.before[Got.a]

RECURSIVE IsValueType(_)
\* t is a scalar kind, an array of a value type, or a struct without
\* unexported fields whose exported fields are all of value types
IsValueType(t) ==
  LET d == TypeTable[t] IN
  CASE d.kind \in ScalarKinds -> TRUE
    [] d.kind = "array" -> IsValueType(d.elem)
    [] d.kind = "struct" ->
         \A i \in 1..Len(d.fields) : d.fields[i].exp /\ IsValueType(d.fields[i].type)
    [] OTHER -> FALSE

\* C22: Classifier soundness and completeness.  The analysis of a type t
\* sets IsOnlyValues exactly when t is a scalar kind, an array whose element
\* type is value-only, or a struct without unexported fields whose exported
\* fields are all value-only; pointer, slice, map, channel, function,
\* interface and unknown kinds are never value-only.  Hence every type a
\* value-only type is built from is a scalar, an array or a struct without
\* unexported fields.
C22_Classifier ==
  last.op = "getOrAnalyzeType" =>
    /\ IsOnlyValues(last.an) <=> IsValueType(last.T)
    /\ KindOf(last.T) \in {"ptr", "slice", "map", "chan", "func", "interface", "unsafe"} =>
         ~IsOnlyValues(last.an)
    /\ IsOnlyValues(last.an) =>
         \A u \in TypeClosure({last.T}) :
           /\ KindOf(u) \in ScalarKinds \cup {"array", "struct"}
           /\ KindOf(u) = "struct" => \A i \in 1..Len(TypeTable[u].fields) : TypeTable[u].fields[i].exp

\* an array of structs that hold a struct of scalars was found value-only
C22_Witness ==
  /\ last.op = "getOrAnalyzeType" /\ last.T = "[2]NestedValueStruct"
  /\ IsOnlyValues(last.an)
  /\ last.mgr \in DOMAIN analysisCache
  /\ analysisCache[last.mgr][last.T] = last.an

RECURSIVE ReachTypes(_)
\* the types reachable from the types of S through exported fields, array,
\* slice and pointer element types and map key and value types
ReachTypes(S) ==
  LET parts(t) ==
        LET d == TypeTable[t] IN
        CASE d.kind \in {"ptr", "slice", "array"} -> {d.elem}
          [] d.kind = "map" -> {d.key, d.elem}
          [] d.kind = "struct" -> {d.fields[i].type : i \in Exported(t)}
          [] OTHER -> {}
      N == S \cup UNION {parts(t) : t \in S}
  IN IF N = S THEN S ELSE ReachTypes(N)

\* type t is of kind k or reaches a type of kind k
HasKind(t, k) == \E u \in ReachTypes({t}) : KindOf(u) = k

RECURSIVE Entries(_, _)
\* the types of the results of a pass that are the results of S or entries
\* of FieldAnalysis below them
Entries(S, pass) ==
  LET N == S \cup UNION {{pass[t].FieldAnalysis[i].ref : i \in 1..Len(pass[t].FieldAnalysis)}
                          : t \in S}
  IN IF N = S THEN S ELSE Entries(N, pass)

\* C23: Analysis flags are a function of the type alone.  Every result an
\* analysis produces for a type, the result of the analysed type as well as
\* every entry nested in FieldAnalysis, has ContainsPtr, ContainsSlice,
\* ContainsMap, ContainsChan, ContainsFunc and ContainsIface true exactly
\* when that kind is the kind of the type or is reachable from it through
\* exported fields, element types and map key and value types, whatever the
\* order of the fields and the type the analysis started from.
C23_FlagsOfType ==
  last.op = "getOrAnalyzeType" =>
    \A u \in Entries({last.an.root}, last.an.pass) :
      LET r == last.an.pass[u] IN
      /\ r.ContainsPtr <=> HasKind(u, "ptr")
      /\ r.ContainsSlice <=> HasKind(u, "slice")
      /\ r.ContainsMap <=> HasKind(u, "map")
      /\ r.ContainsChan <=> HasKind(u, "chan")
      /\ r.ContainsFunc <=> HasKind(u, "func")
      /\ r.ContainsIface <=> HasKind(u, "interface")

\* C24: Type analysis terminates for every type, self-referential and
\* mutually recursive definitions included.  The analysis of a type comes
\* to an end with a result for the type and for every type reachable from
\* it through exported fields, element types and map key and value types;
\* no type is entered again while its analysis is in progress without being
\* found in visited, every type is expanded once in the pass, and no result
\* is left in progress.
C24_AnalysisTerminates ==
  last.op = "getOrAnalyzeType" =>
    /\ DOMAIN last.an.pass = ReachTypes({last.T})
    /\ \A u \in DOMAIN last.an.pass :
         LET r == last.an.pass[u] IN
         /\ r.TypeName = u
         /\ ~r.overflow
         /\ r.expansions = 1
         /\ ~r.open

\* the analysis of one of two types that refer to each other ended with a
\* result for both and for the pointers to them
C24_Witness ==
  /\ last.op = "getOrAnalyzeType" /\ last.T = "Even"
  /\ DOMAIN last.an.pass = {"Even", "*Odd", "Odd", "*Even", "chan int"}
  /\ \A u \in DOMAIN last.an.pass : ~last.an.pass[u].open
  /\ last.an.pass["Even"].ContainsChan /\ last.an.pass["Even"].ContainsPtr

\* C25: Visitation-table protocol.  During one top-level copy every source
\* address is entered in the visitation table at most once, with a
\* destination allocated by the call, and the entry is made before the
\* referent is traversed; no pointer target is traversed twice; every
\* lookup that finds an address finds the destination entered for it
\* earlier in the same call (so the entry was not overwritten and the table
\* held nothing of an earlier call), and in the copy of a source given
\* under its concrete type every pointer at a position that corresponds to
\* a source address holds the destination entered for that address.
C25_VisitationTable ==
  last.op \in CopyOps =>
    LET log == last.log
        n == Len(last.log)
    IN
    /\ \A i, j \in 1..n :
         (log[i][1] = log[j][1] /\ log[i][1] \in {"enter", "traverse"}
            /\ log[i][2] = log[j][2]) => i = j
    /\ \A i \in 1..n :
         /\ log[i][1] = "enter" => log[i][2] \in 1..srcSize /\ log[i][3] > srcSize
         /\ log[i][1] = "traverse" =>
              i > 1 /\ log[i - 1] = <<"enter", log[i][2], log[i][3]>>
         /\ log[i][1] = "hit" =>
              \E j \in 1..(i - 1) : log[j] = <<"enter", log[i][2], log[i][3]>>
    /\ (~last.panic /\ ConcreteCall /\ OwnKey /\ wrote = NoWrite) =>
         \A p \in Corresponding(src, Got, heap) :
           heap[p[1]].ok = "cell" =>
             \E i \in 1..n : log[i] = <<"enter", p[1], p[2]>>

\* a ring of two nodes was copied: both nodes were entered and traversed
\* and the pointer that closes the ring found the entry of the first
C25_Witness ==
  /\ last.op = "Copy" /\ ~last.panic /\ ConcreteCall
  /\ src.k = "ptr" /\ Cyclic(src, SrcHeap)
  /\ Len(last.log) = 5
  /\ last.log[5][1] = "hit" /\ last.log[5][2] = src.a
  /\ last.log[5][3] = Got.a
  /\ businessCopyCache = EmptyMap

\* the pointers to the source address a have an override: DeepCopy is in
\* the method set of the pointer type or of the type of the referent
HasOverride(a) ==
  LET t == SrcHeap[a].v.t IN
  MethodByNameDeepCopy(t) \/ (PtrTo(t) \in TypeNames /\ MethodByNameDeepCopy(PtrTo(t)))

\* C26 as stated: in the pointer branch the override check is made before
\* the lookup in the visitation table, so the table is consulted for an
\* already-created copy only when no override fires: no lookup finds the
\* address of a pointer whose type or referent type has an override.
C26_OverrideBeforeLookup ==
  last.op \in CopyOps =>
    \A i \in 1..Len(last.log) :
      last.log[i][1] = "hit" => ~HasOverride(last.log[i][2])

\* C26, amended: in the pointer branch the lookup in the visitation table
\* is made before the override checks.  The override fires for the first
\* pointer to an address only: its result is used as the destination (in a
\* newly allocated cell) and recorded, the referent is not traversed, and
\* every later pointer to the address finds the recorded destination
\* without the override being called again.
C26_LookupBeforeOverride ==
  last.op \in CopyOps =>
    \A i \in 1..Len(last.log) :
      (last.log[i][1] = "enter" /\ HasOverride(last.log[i][2])) =>
        /\ \A j \in 1..Len(last.log) :
             (j # i /\ last.log[j][2] = last.log[i][2]) =>
               j > i /\ last.log[j] = <<"hit", last.log[i][2], last.log[i][3]>>
        /\ (~last.panic /\ wrote = NoWrite) =>
             heap[last.log[i][3]] = Cell(DeepCopyBody(SrcHeap[last.log[i][2]].v))

\* a slice that holds one pointer to a CustomCopier twice was copied: the
\* override was called for the first element, the second found its result
C26_Witness ==
  /\ last.op \in CopyOps /\ ~last.panic /\ ConcreteCall
  /\ src.t = "[]*CustomCopier"
  /\ last.log = <<<<"enter", 1, Got.a + 1>>, <<"hit", 1, Got.a + 1>>>>
  /\ wrote = NoWrite
  /\ heap[Got.a].e[1] = heap[Got.a].e[2]
  /\ heap[Got.a + 1].v.f[1].n = 84

\* C27: The source is never written.  For every source graph without
\* override types, a call of Copy, CopyWithKey or CopyValue leaves every
\* object reachable from the source as it was before the call: the values
\* behind pointers with their unexported fields, the elements of slices up
\* to the capacity, the entries of maps; the source value itself is
\* unchanged too.
C27_SourceUnwritten ==
  [][ (last'.op \in CopyOps /\ wrote' = NoWrite /\ NoOverrideTypes(src, SrcHeap)) =>
        /\ src' = src
        /\ srcSize' = srcSize
        /\ \A a \in 1..srcSize : heap'[a] = heap[a]
    ]_vars

\* a struct behind a pointer, with unexported fields that hold a slice and a
\* map, was copied under a key: the copy lost them, the source has them
C27_Witness ==
  /\ last.op = "CopyWithKey" /\ ~last.panic /\ ConcreteCall /\ OwnKey
  /\ wrote = NoWrite
  /\ src.t = "*Unexported" /\ srcSize = 3
  /\ heap[3].v.f[5].a = 1 /\ heap[1] = Store(<<IntV(1), IntV(2)>>)
  /\ heap[3].v.f[6].a = 2 /\ Len(heap[2].m) = 1
  /\ heap[3].v.f[3] = StrV("aa")
  /\ Got.a > srcSize
  /\ heap[Got.a].v.f[5].a = 0

\* C28: The entry stored for a key influences only the shortcut decision of
\* CopyWithKey.  When the entry is not value-only, CopyWithKey(src, key)
\* ends as the traversal without analysis results (copyRecursive) ends for
\* src and returns its result under the caller's type T, with the same
\* objects allocated, whatever type the key was first bound to; when the
\* entry is value-only it returns src itself and allocates nothing,
\* whatever T holds.
C28_EntryOnlyShortcut ==
  (last.op = "CopyWithKey" /\ wrote = NoWrite /\ ValueOf(Arg(last.T)).k # "invalid") =>
    IF last.info.IsOnlyValues
    THEN ~last.panic /\ last.ret = Arg(last.T) /\ heap = SrcHeap
    ELSE \E r \in {copyRecursive(ValueOf(Arg(last.T)), NewVisited(SrcHeap))} :
           /\ last.overflow = r.st.overflow
           /\ last.panic = r.st.panic
           /\ ~last.panic =>
                 /\ last.ret = IF KindOf(last.T) = "interface"
                                THEN IfaceV(last.T, <<r.v>>) ELSE r.v
                 /\ heap = r.st.heap

RECURSIVE RefOf(_)
\* the slice backing store or the map the value v holds, directly or as the
\* dynamic value of an interface; 0 when it holds none
RefOf(v) ==
  CASE v.k \in {"slice", "map"} -> v.a
    [] v.k = "interface" -> IF v.d = <<>> THEN 0 ELSE RefOf(v.d[1])
    [] OTHER -> 0

\* the values an object holds: the elements of a store, the values of a table
Items(o) ==
  CASE o.ok = "store" -> o.e
    [] o.ok = "table" -> [i \in 1..Len(o.m) |-> o.m[i].val]
    [] OTHER -> <<>>

\* two values of the source slice or map hold one backing store or one map
SharedStore(v, h) ==
  /\ v.k \in {"slice", "map"} /\ v.a # 0
  /\ \E i, j \in 1..Len(Items(h[v.a])) :
       i # j /\ RefOf(Items(h[v.a])[i]) # 0
             /\ RefOf(Items(h[v.a])[i]) = RefOf(Items(h[v.a])[j])

\* C29: Sharing is tracked for pointers only.  When two elements of the
\* source slice (two values of the source map) hold the same slice backing
\* store or the same map, the elements at the same positions of the copy
\* hold two different stores or maps, both allocated by the call, each of
\* which agrees with the shared original at every position; a write to one
\* of them leaves the other as it was.
C29_StoresNotShared ==
  (last.op \in CopyOps /\ ConcreteCall /\ OwnKey /\ NoOverrideTypes(src, SrcHeap)
     /\ SharedStore(src, SrcHeap)) =>
    /\ ~last.panic
    /\ Got.k = src.k /\ Got.a > srcSize
    /\ \E h0 \in {IF wrote = NoWrite THEN heap ELSE wrote.before} :
         \E S \in {Items(h0[src.a])}, G \in {Items(h0[Got.a])} :
           /\ Len(G) = Len(S)
           /\ \A i, j \in 1..Len(S) :
                (i # j /\ RefOf(S[i]) # 0 /\ RefOf(S[i]) = RefOf(S[j])) =>
                  /\ RefOf(G[i]) > srcSize /\ RefOf(G[j]) > srcSize
                  /\ RefOf(G[i]) # RefOf(G[j])
                  /\ SameGraph(S[i], G[i], h0) /\ SameGraph(S[j], G[j], h0)
                  /\ (wrote.side = "copy" /\ wrote.a = RefOf(G[i])) =>
                       heap[RefOf(G[j])] = h0[RefOf(G[j])]

\* s and s[:1] over one backing store were copied as the elements of a slice
\* of interfaces; the store of the first copy was written, that of the
\* second still holds 1
C29_Witness ==
  /\ last.op \in CopyOps /\ ConcreteCall /\ OwnKey /\ ~last.panic
  /\ src.t = "[]interface {}" /\ srcSize = 2
  /\ heap[2].e[1].d[1] = SliceV("[]int", 1, 2, 2)
  /\ heap[2].e[2].d[1] = SliceV("[]int", 1, 1, 2)
  /\ wrote.side = "copy"
  /\ wrote.a = RefOf(wrote.before[Got.a].e[1])
  /\ heap[wrote.a].e[1] = IntV(2)
  /\ heap[RefOf(wrote.before[Got.a].e[2])].e = <<IntV(1), IntV(0)>>

\* the analysis results a cache of the managers holds
InCache(ac) == UNION {{ac[m][t] : t \in DOMAIN ac[m]} : m \in Managers}

\* the analysis results the goroutines, the typed managers and the entries of
\* the keys refer to
Referred(th, tm, bc) ==
  {x \in {th[p].analysis : p \in Procs} \cup {tm[i].analysis : i \in DOMAIN tm} \cup
          {bc[k].analysisResult : k \in DOMAIN bc} : "id" \in DOMAIN x}

\* the analysis of every type of the pass of r has finished, and every field
\* refers to a result of the pass
Complete(r) ==
  /\ r.root \in DOMAIN r.pass
  /\ \A u \in DOMAIN r.pass :
       /\ ~r.pass[u].open
       /\ r.pass[u].TypeName = u
       /\ \A i \in 1..Len(r.pass[u].FieldAnalysis) :
            r.pass[u].FieldAnalysis[i].ref \in DOMAIN r.pass

\* C30: Every analysis result readable from a manager's analysis cache is
\* complete, under every interleaving of two concurrent callers: after every
\* step each result in a cache has the analysis of all its types finished
\* (no placeholder in progress), and it is the object it was when it was
\* stored: the cache before the step, the goroutines, the typed managers and
\* the entries of the keys that refer to the same object see the same
\* contents.
C30_CachedResultsComplete ==
  [][ \A r \in InCache(analysisCache') :
        /\ Complete(r)
        /\ \A x \in InCache(analysisCache) \cup Referred(thr, tms, businessCopyCache) \cup
                    Referred(thr', tms', businessCopyCache') :
             x.id = r.id => x = r
    ]_vars

\* both goroutines have finished a call on a ring of one node: the first
\* analysed *CircularStruct and stored the result, the second read it
C30_Witness ==
  /\ \A p \in Procs : thr[p].pc = "done"
  /\ "*CircularStruct" \in DOMAIN analysisCache["default"]
  /\ analysisCache["default"]["*CircularStruct"].id = <<"g1", 1>>
  /\ DOMAIN analysisCache["default"]["*CircularStruct"].pass =
       {"*CircularStruct", "CircularStruct", "string"}
  /\ Complete(analysisCache["default"]["*CircularStruct"])
  /\ thr["g2"].analysis = analysisCache["default"]["*CircularStruct"]
  /\ thr["g2"].nobj = 0
  /\ hist.analysed = {<<"default", "*CircularStruct", <<"g1", 1>>>>}


TypeOK ==
  /\ srcSize <= Len(heap)
  /\ last.op \in CopyOps \cup {"none", "AnalyzeValue", "CopyWithKeyOther"}
====
